---------------------------- MODULE Spec2Model ----------------------------
(***************************************************************************)
(* A model of the MLChess driver (Pygame_Chess_Beta/Game.py), its engine   *)
(* wrapper (ML.py) and its self-play trainer (MLBeta.py).                  *)
(*                                                                         *)
(* ChessBoard.py and pieces/*.py are imported by the three source files    *)
(* but are not part of them; the board layer below (piece movement, the    *)
(* check filter, castling, ChessBoard.move_piece) follows sections 3 and 4 *)
(* of the specification.  Everything from get_all_poss_moves upwards is    *)
(* translated from the source.                                             *)
(*                                                                         *)
(* A square is <<x, y>>: x the file 0..7, y the rank index 0..7.           *)
(***************************************************************************)
EXTENDS Integers, Sequences, FiniteSets, TLC

VARIABLES
    program,                    \* "Game" (Game.py), "Trainer" (MLBeta.py),
                                \* "EngineAI" (the static methods of ML.py) or
                                \* "DirectionRules" (ML.py)
    board,                      \* chess_board.board: square -> piece or None
    curr_player,                \* chess_board.curr_player: "w" | "b"
    played_moves,               \* chess_board.played_moves
    white_pieces_taken_images,  \* Game.white_pieces_taken_images
    black_pieces_taken_images,  \* Game.black_pieces_taken_images
    curr_selected_piece,        \* Game.curr_selected_piece
    curr_poss_moves,            \* Game.curr_poss_moves
    all_poss_moves,             \* Game.all_poss_moves
    ai_enabled,                 \* Game.ai_enabled
    ai,                         \* Game.ai: "EngineAI" | "None"
    ai_thinking,                \* Game.ai_thinking
    status,                     \* "running" | "checkmate" (quit()) | "crashed" | "done"
    winner,                     \* the winner check_checkmate announces
    last,                       \* the handler that ran last, its input and its exit
    move_count,                 \* simulate_game: move_count
    game_history,               \* simulate_game: game_history
    translation,                \* EngineAI: a board move, its uci string and the
                                \* board move read back from the string
    direction_call              \* DirectionRules: the arguments of a call of
                                \* is_allowed and the value it returns

vars == <<program, board, curr_player, played_moves, white_pieces_taken_images,
          black_pieces_taken_images, curr_selected_piece, curr_poss_moves,
          all_poss_moves, ai_enabled, ai, ai_thinking, status, winner, last, move_count,
          game_history, translation, direction_call>>

-----------------------------------------------------------------------------
(* Squares and pieces                                                      *)

Coord == 0..7
Squares == Coord \X Coord
OnBoard(sq) == sq[1] >= 0 /\ sq[1] <= 7 /\ sq[2] >= 0 /\ sq[2] <= 7

None == [name |-> "None"]
Piece(n, c, pos, m) == [name |-> n, color |-> c, position |-> pos, has_moved |-> m]
Opponent(c) == IF c = "w" THEN "b" ELSE "w"

\* board[x][y] of the source (lists indexed from 0) is b[x + 1][y + 1].
At(b, sq) == b[sq[1] + 1][sq[2] + 1]
Put(b, sq, v) == [b EXCEPT ![sq[1] + 1][sq[2] + 1] = v]

BackRank == <<"Rook", "Knight", "Bishop", "Queen", "King", "Bishop", "Knight", "Rook">>

\* ChessBoard(): the standard initial position.
ChessBoardInit ==
    [i \in 1..8 |->
        [j \in 1..8 |->
            CASE j = 1 -> Piece(BackRank[i], "w", <<i - 1, j - 1>>, FALSE)
              [] j = 2 -> Piece("Pawn", "w", <<i - 1, j - 1>>, FALSE)
              [] j = 7 -> Piece("Pawn", "b", <<i - 1, j - 1>>, FALSE)
              [] j = 8 -> Piece(BackRank[i], "b", <<i - 1, j - 1>>, FALSE)
              [] OTHER -> None]]

get_piece_at(b, sq) == IF OnBoard(sq) THEN At(b, sq) ELSE None

get_all_pieces(b) == UNION {{b[i][j] : j \in {k \in 1..8 : b[i][k] # None}} : i \in 1..8}

get_curr_player_pieces(b, player) ==
    UNION {{b[i][j] : j \in {k \in 1..8 : b[i][k] # None /\ b[i][k].color = player}} :
              i \in 1..8}

-----------------------------------------------------------------------------
(* Piece movement generation (specification 4.1): pseudo-legal moves       *)

Orthogonals == {<<1, 0>>, <<-1, 0>>, <<0, 1>>, <<0, -1>>}
Diagonals == {<<1, 1>>, <<1, -1>>, <<-1, 1>>, <<-1, -1>>}
KnightOffsets == {<<1, 2>>, <<2, 1>>, <<-1, 2>>, <<-2, 1>>,
                  <<1, -2>>, <<2, -1>>, <<-1, -2>>, <<-2, -1>>}

\* Ray-cast from sq along d: until the edge, an own piece (excluded) or an
\* opposing piece (included).
RECURSIVE Ray(_, _, _, _)
Ray(b, color, sq, d) ==
    LET nx == <<sq[1] + d[1], sq[2] + d[2]>> IN
    IF ~OnBoard(nx) THEN {}
    ELSE IF At(b, nx) = None THEN {nx} \cup Ray(b, color, nx, d)
    ELSE IF At(b, nx).color # color THEN {nx}
    ELSE {}

RayMoves(b, p, dirs) == UNION {Ray(b, p.color, p.position, d) : d \in dirs}

StepMoves(b, p, offsets) ==
    {sq \in {<<p.position[1] + o[1], p.position[2] + o[2]>> : o \in offsets} :
        OnBoard(sq) /\ (At(b, sq) = None \/ At(b, sq).color # p.color)}

PawnMoves(b, p) ==
    LET x == p.position[1]
        y == p.position[2]
        dy == IF p.color = "w" THEN 1 ELSE -1
        start == IF p.color = "w" THEN 1 ELSE 6
        one == <<x, y + dy>>
        two == <<x, y + 2 * dy>>
        fwd1 == IF OnBoard(one) /\ At(b, one) = None THEN {one} ELSE {}
        fwd2 == IF fwd1 # {} /\ y = start /\ ~p.has_moved /\ At(b, two) = None
                THEN {two} ELSE {}
        caps == {sq \in {<<x - 1, y + dy>>, <<x + 1, y + dy>>} :
                    OnBoard(sq) /\ At(b, sq) # None /\ At(b, sq).color # p.color}
    IN fwd1 \cup fwd2 \cup caps

PieceMoves(b, p) ==
    CASE p.name = "Pawn" -> PawnMoves(b, p)
      [] p.name = "Knight" -> StepMoves(b, p, KnightOffsets)
      [] p.name = "Bishop" -> RayMoves(b, p, Diagonals)
      [] p.name = "Rook" -> RayMoves(b, p, Orthogonals)
      [] p.name = "Queen" -> RayMoves(b, p, Orthogonals \cup Diagonals)
      [] p.name = "King" -> StepMoves(b, p, Orthogonals \cup Diagonals)

-----------------------------------------------------------------------------
(* Legality filtering (4.2) and castling (4.3)                             *)

Dist(a, c) == IF a < c THEN c - a ELSE a - c

\* A necessary condition for `to` to be in the move set of a piece of this
\* kind standing on `from`; it only spares generating move sets that cannot
\* hold `to`.
InPattern(name, from, to) ==
    LET dx == Dist(from[1], to[1])
        dy == Dist(from[2], to[2])
    IN CASE name = "Pawn" -> dx <= 1 /\ dy <= 2
         [] name = "Knight" -> dx + dy = 3
         [] name = "Bishop" -> dx = dy
         [] name = "Rook" -> dx = 0 \/ dy = 0
         [] name = "Queen" -> dx = 0 \/ dy = 0 \/ dx = dy
         [] name = "King" -> dx <= 1 /\ dy <= 1

\* Some piece of color `by` has sq in its pseudo-legal move set.
SquareAttacked(b, sq, by) ==
    \E i \in 1..8 : \E j \in 1..8 :
        /\ b[i][j] # None
        /\ b[i][j].color = by
        /\ InPattern(b[i][j].name, <<i - 1, j - 1>>, sq)
        /\ sq \in PieceMoves(b, b[i][j])

IsKingOf(q, c) == q # None /\ q.name = "King" /\ q.color = c

KingSquare(b, c) ==
    LET i == CHOOSE k \in 1..8 : \E j \in 1..8 : IsKingOf(b[k][j], c)
        j == CHOOSE k \in 1..8 : IsKingOf(b[i][k], c)
    IN <<i - 1, j - 1>>

\* The scratch copy of the grid with the piece on `from` moved to `to`.
SimulateMove(b, from, to) ==
    Put(Put(b, from, None), to, [At(b, from) EXCEPT !.position = to])

LeavesKingAttacked(b, p, to) ==
    LET b2 == SimulateMove(b, p.position, to)
    IN SquareAttacked(b2, KingSquare(b2, p.color), Opponent(p.color))

\* ChessBoard.is_curr_player_in_check(piece, p_moves): the moves of p_moves
\* that do not leave the mover's own king attacked.
is_curr_player_in_check(b, p, p_moves) ==
    {to \in p_moves : ~LeavesKingAttacked(b, p, to)}

HomeRank(player) == IF player = "w" THEN 0 ELSE 7

\* A faulty variant of get_castle_moves_for_curr_player: the squares the
\* king passes through are not tested for attack.
get_castle_moves_unsafe_path(b, player) ==
    LET r == HomeRank(player)
        k == At(b, <<4, r>>)
        kingOK == k # None /\ k.name = "King" /\ k.color = player /\ ~k.has_moved
        rookOK(x) == LET q == At(b, <<x, r>>)
                     IN q # None /\ q.name = "Rook" /\ q.color = player /\ ~q.has_moved
        empty(xs) == \A x \in xs : At(b, <<x, r>>) = None
        safe == ~SquareAttacked(b, <<4, r>>, Opponent(player))
    IN  IF ~kingOK THEN {}
        ELSE (IF rookOK(7) /\ empty({5, 6}) /\ safe THEN {<<6, r>>} ELSE {})
             \cup
             (IF rookOK(0) /\ empty({1, 2, 3}) /\ safe THEN {<<2, r>>} ELSE {})

\* ChessBoard.get_castle_moves_for_curr_player(): the castling destinations
\* of the king of the side to move.
get_castle_moves_for_curr_player(b, player) ==
    LET r == HomeRank(player)
        k == At(b, <<4, r>>)
        kingOK == k # None /\ k.name = "King" /\ k.color = player /\ ~k.has_moved
        rookOK(x) == LET q == At(b, <<x, r>>)
                     IN q # None /\ q.name = "Rook" /\ q.color = player /\ ~q.has_moved
        empty(xs) == \A x \in xs : At(b, <<x, r>>) = None
        safeAt(x) == IF x = 4 THEN ~SquareAttacked(b, <<4, r>>, Opponent(player))
                     ELSE ~LeavesKingAttacked(b, k, <<x, r>>)
        safe(xs) == \A x \in xs : safeAt(x)
    IN  IF ~kingOK THEN {}
        ELSE (IF rookOK(7) /\ empty({5, 6}) /\ safe({4, 5, 6}) THEN {<<6, r>>} ELSE {})
             \cup
             (IF rookOK(0) /\ empty({1, 2, 3}) /\ safe({4, 3, 2}) THEN {<<2, r>>} ELSE {})

\* ChessBoard.get_poss_moves_for(piece): the piece's pseudo-legal moves,
\* with the castling destinations folded into the entry of the king of the
\* side to move (4.4).
get_poss_moves_for(b, player, p) ==
    PieceMoves(b, p) \cup
    (IF p.name = "King" /\ p.color = player
     THEN get_castle_moves_for_curr_player(b, player) ELSE {})

\* A faulty variant of get_all_poss_moves: the entries are the pseudo-legal
\* moves, not passed through is_curr_player_in_check.
get_all_poss_moves_unfiltered(b, player) ==
    LET pieces == get_curr_player_pieces(b, player)
    IN [pos \in {p.position : p \in pieces} |->
            LET piece == CHOOSE p \in pieces : p.position = pos
            IN get_poss_moves_for(b, player, piece)]

\* A faulty variant of get_all_poss_moves: the map is built over the pieces
\* of both colours.
get_all_poss_moves_all_pieces(b, player) ==
    LET pieces == get_all_pieces(b)
    IN [pos \in {p.position : p \in pieces} |->
            LET piece == CHOOSE p \in pieces : p.position = pos
            IN is_curr_player_in_check(b, piece, get_poss_moves_for(b, player, piece))]

\* Game.get_all_poss_moves
get_all_poss_moves(b, player) ==
    LET pieces == get_curr_player_pieces(b, player)
    IN [pos \in {p.position : p \in pieces} |->
            LET piece == CHOOSE p \in pieces : p.position = pos
            IN is_curr_player_in_check(b, piece, get_poss_moves_for(b, player, piece))]

-----------------------------------------------------------------------------
(* ChessBoard.move_piece and ChessBoard.castle_king (4.3, 4.4)             *)

\* ChessBoard.move_piece(piece, new_position): relocates the piece, marks it
\* as moved and returns the captured occupant (or None).
board_move_piece(b, piece, new_position) ==
    [board |-> Put(Put(b, piece.position, None), new_position,
                   [piece EXCEPT !.position = new_position, !.has_moved = TRUE]),
     captured |-> At(b, new_position)]

\* ChessBoard.castle_king(king, to): relocates king and rook together and
\* marks both as moved.
castle_king(b, king, to) ==
    LET r == king.position[2]
        rookFrom == IF to[1] = 6 THEN <<7, r>> ELSE <<0, r>>
        rookTo == IF to[1] = 6 THEN <<5, r>> ELSE <<3, r>>
        rook == At(b, rookFrom)
    IN Put(Put(Put(Put(b, king.position, None), rookFrom, None),
               to, [king EXCEPT !.position = to, !.has_moved = TRUE]),
           rookTo, [rook EXCEPT !.position = rookTo, !.has_moved = TRUE])

-----------------------------------------------------------------------------
(* Game.py: the driver.  g is the Game object ("self") as a record.        *)

\* Game.deselect_piece sets curr_poss_moves to None, Game.__init__ to []:
\* NoPossMoves stands for None and {} for the empty list.
NoPossMoves == {<<8, 8>>}

Upper(c) == IF c = "w" THEN "W" ELSE "B"

FileLetters == <<"A", "B", "C", "D", "E", "F", "G", "H">>

\* Game.convert_coordinate_to_space_name: (1, 3) -> 'B4' as <<"B", 4>>
convert_coordinate_to_space_name(coordinate) ==
    <<FileLetters[coordinate[1] + 1], coordinate[2] + 1>>

\* Game.convert_coordinates_to_space: pixel (x, y) -> space; the y axis is flipped
convert_coordinates_to_space(x, y) == <<x \div 75, 7 - (y \div 75)>>

\* Game.is_piece_of_curr_player
is_piece_of_curr_player(g, space) ==
    \E i \in 1..8 : \E j \in 1..8 :
        LET piece == g.board[i][j]
        IN piece # None /\ piece.color = g.curr_player /\ space = piece.position

\* Game.get_curr_poss_moves: all_poss_moves[curr_selected_piece.position];
\* raises (AttributeError, KeyError) when there is no such entry.
HasEntry(g, piece) == piece # None /\ piece.position \in DOMAIN g.all_poss_moves

\* A faulty variant of new_piece_selected: curr_poss_moves is taken from the
\* board's pseudo-legal moves instead of the legal-move map.
new_piece_selected_pseudo_legal(g, new_space) ==
    LET piece == get_piece_at(g.board, new_space)
    IN IF HasEntry(g, piece)
       THEN [g EXCEPT !.curr_selected_piece = piece,
                      !.curr_poss_moves = get_poss_moves_for(g.board, g.curr_player, piece)]
       ELSE [g EXCEPT !.curr_selected_piece = piece, !.status = "crashed"]

\* Game.new_piece_selected
new_piece_selected(g, new_space) ==
    LET piece == get_piece_at(g.board, new_space)
    IN IF HasEntry(g, piece)
       THEN [g EXCEPT !.curr_selected_piece = piece,
                      !.curr_poss_moves = g.all_poss_moves[piece.position]]
       ELSE [g EXCEPT !.curr_selected_piece = piece, !.status = "crashed"]

\* Game.deselect_piece
deselect_piece(g) ==
    [g EXCEPT !.curr_selected_piece = None, !.curr_poss_moves = NoPossMoves]

\* A faulty variant of change_curr_player: the side to move is kept.
change_curr_player_kept(g) == g

\* Game.change_curr_player
change_curr_player(g) ==
    [g EXCEPT !.curr_player = IF g.curr_player = "b" THEN "w" ELSE "b"]

\* A faulty variant of add_move: the entry names the side that is not moving.
add_move_other_side(g, pos_1, pos_2) ==
    [g EXCEPT !.played_moves =
        Append(@, [player |-> Upper(Opponent(g.curr_player)),
                   from |-> convert_coordinate_to_space_name(pos_1),
                   to |-> convert_coordinate_to_space_name(pos_2)])]

\* Game.add_move
add_move(g, pos_1, pos_2) ==
    [g EXCEPT !.played_moves =
        Append(@, [player |-> Upper(g.curr_player),
                   from |-> convert_coordinate_to_space_name(pos_1),
                   to |-> convert_coordinate_to_space_name(pos_2)])]

Image(piece) == <<piece.color, piece.name>>

\* A faulty variant of piece_was_captured: the image goes to the list of the
\* capturing side.
piece_was_captured_own_list(g, piece) ==
    IF piece.color = "w"
    THEN [g EXCEPT !.black_pieces_taken_images = Append(@, Image(piece))]
    ELSE [g EXCEPT !.white_pieces_taken_images = Append(@, Image(piece))]

\* Game.piece_was_captured
piece_was_captured(g, piece) ==
    IF piece.color = "w"
    THEN [g EXCEPT !.white_pieces_taken_images = Append(@, Image(piece))]
    ELSE [g EXCEPT !.black_pieces_taken_images = Append(@, Image(piece))]

\* Game.move_piece
move_piece(g, piece, new_position) ==
    LET r == board_move_piece(g.board, piece, new_position)
        g1 == [g EXCEPT !.board = r.board]
    IN IF r.captured # None THEN piece_was_captured(g1, r.captured) ELSE g1

\* A faulty variant of the promotion block: the Queen is given the colour of
\* the side that did not move.
PromoteAt_other_colour(g, piece, to) ==
    IF piece.name = "Pawn" /\ (to[2] = 0 \/ to[2] = 7)
    THEN [g EXCEPT !.board = Put(Put(g.board, to, None), to,
                                 Piece("Queen", Opponent(g.curr_player), to, FALSE))]
    ELSE g

\* The pawn promotion block of the three move paths (Game.py 117-119,
\* 200-202, 270-272): a Queen of curr_player replaces the pawn.
PromoteAt(g, piece, to) ==
    IF piece.name = "Pawn" /\ (to[2] = 0 \/ to[2] = 7)
    THEN [g EXCEPT !.board = Put(Put(g.board, to, None), to,
                                 Piece("Queen", g.curr_player, to, FALSE))]
    ELSE g

\* Game.check_checkmate, and the same block inlined at Game.py 211-222 and
\* 281-292: game over when every entry of all_poss_moves is empty.
IsCheckmate(g) == \A piece_pos \in DOMAIN g.all_poss_moves : g.all_poss_moves[piece_pos] = {}

\* A faulty variant of check_checkmate: the side to move is named winner.
check_checkmate_side_to_move_wins(g) ==
    IF IsCheckmate(g)
    THEN [g EXCEPT !.status = "checkmate",
                   !.winner = IF g.curr_player = "w" THEN "White" ELSE "Black"]
    ELSE g

check_checkmate(g) ==
    IF IsCheckmate(g)
    THEN [g EXCEPT !.status = "checkmate",
                   !.winner = IF g.curr_player = "b" THEN "White" ELSE "Black"]
    ELSE g

\* A faulty variant of RefreshMoves: the map is kept as it was.
RefreshMoves_kept(g) == g

RefreshMoves(g) == [g EXCEPT !.all_poss_moves = get_all_poss_moves(g.board, g.curr_player)]

\* The Game object as a record.
Self ==
    [board |-> board, curr_player |-> curr_player, played_moves |-> played_moves,
     white_pieces_taken_images |-> white_pieces_taken_images,
     black_pieces_taken_images |-> black_pieces_taken_images,
     curr_selected_piece |-> curr_selected_piece, curr_poss_moves |-> curr_poss_moves,
     all_poss_moves |-> all_poss_moves, ai_enabled |-> ai_enabled, ai |-> ai,
     status |-> status, winner |-> winner]

\* A move: the pair (from_pos, to_pos).
Move(from, to) == [from |-> from, to |-> to]

\* A faulty variant of get_valid_command: the destination is not looked up
\* in poss_moves.
get_valid_command_unchecked(g, square_piece_from, square_piece_to) ==
    IF is_piece_of_curr_player(g, square_piece_from)
    THEN LET g1 == new_piece_selected(g, square_piece_from)
             sel == g1.curr_selected_piece
         IN IF g1.status = "crashed" \/ ~OnBoard(square_piece_to) THEN g1
            ELSE LET g2 == IF sel.name = "King" /\ square_piece_to \in
                                get_castle_moves_for_curr_player(g1.board, g1.curr_player)
                           THEN [add_move(g1, sel.position, square_piece_to) EXCEPT
                                    !.board = castle_king(g1.board, sel, square_piece_to)]
                           ELSE PromoteAt(move_piece(add_move(g1, sel.position, square_piece_to),
                                                     sel, square_piece_to),
                                          sel, square_piece_to)
                 IN check_checkmate(RefreshMoves(change_curr_player(deselect_piece(g2))))
    ELSE deselect_piece(g)

\* A faulty variant of get_valid_command: a castling destination is applied
\* like any other move, by move_piece alone.
get_valid_command_king_only(g, square_piece_from, square_piece_to) ==
    IF is_piece_of_curr_player(g, square_piece_from)
    THEN IF square_piece_from \notin DOMAIN g.all_poss_moves
         THEN [g EXCEPT !.status = "crashed"]
         ELSE
         LET poss_moves == g.all_poss_moves[square_piece_from]
             g1 == new_piece_selected(g, square_piece_from)
             sel == g1.curr_selected_piece
         IN IF square_piece_to \in poss_moves
            THEN LET g2 == PromoteAt(move_piece(add_move(g1, sel.position, square_piece_to),
                                               sel, square_piece_to),
                                    sel, square_piece_to)
                 IN check_checkmate(RefreshMoves(change_curr_player(deselect_piece(g2))))
            ELSE g1
    ELSE deselect_piece(g)

\* Game.get_valid_command, after the two squares are parsed from the text.
\* The lookup all_poss_moves[square_piece_from] raises KeyError when the map
\* has no such entry.
get_valid_command(g, square_piece_from, square_piece_to) ==
    IF is_piece_of_curr_player(g, square_piece_from)
    THEN IF square_piece_from \notin DOMAIN g.all_poss_moves
         THEN [g EXCEPT !.status = "crashed"]
         ELSE
         LET poss_moves == g.all_poss_moves[square_piece_from]
             g1 == new_piece_selected(g, square_piece_from)
             sel == g1.curr_selected_piece
         IN IF square_piece_to \in poss_moves
            THEN LET g2 == IF sel.name = "King" /\ square_piece_to \in
                                get_castle_moves_for_curr_player(g1.board, g1.curr_player)
                           THEN [add_move(g1, sel.position, square_piece_to) EXCEPT
                                    !.board = castle_king(g1.board, sel, square_piece_to)]
                           ELSE PromoteAt(move_piece(add_move(g1, sel.position, square_piece_to),
                                                     sel, square_piece_to),
                                          sel, square_piece_to)
                 IN check_checkmate(RefreshMoves(change_curr_player(deselect_piece(g2))))
            ELSE g1
    ELSE deselect_piece(g)

\* What a call of Game.get_valid_command gives back to its caller: no path
\* of the method holds a return statement, so the call evaluates to None.
get_valid_command_returns(g, square_piece_from, square_piece_to) == None

\* Game.get_user_click, for a click at pixel (x, y).
get_user_click(g, x, y) ==
    IF y > 600 \/ x > 600 THEN g
    ELSE
    LET selected_space == convert_coordinates_to_space(x, y)
        sel == g.curr_selected_piece
    IN IF sel = None
       THEN IF is_piece_of_curr_player(g, selected_space)
            THEN new_piece_selected(g, selected_space)
            ELSE g
       ELSE IF selected_space = sel.position
            THEN deselect_piece(g)
       ELSE IF selected_space \in g.curr_poss_moves
            THEN LET g2 == IF sel.name = "King" /\ selected_space \in
                                get_castle_moves_for_curr_player(g.board, g.curr_player)
                           THEN [add_move(g, sel.position, selected_space) EXCEPT
                                    !.board = castle_king(g.board, sel, selected_space)]
                           ELSE PromoteAt(move_piece(add_move(g, sel.position, selected_space),
                                                     sel, selected_space),
                                          sel, selected_space)
                 IN check_checkmate(RefreshMoves(change_curr_player(deselect_piece(g2))))
       ELSE IF is_piece_of_curr_player(g, selected_space)
            THEN new_piece_selected(g, selected_space)
       ELSE deselect_piece(g)

-----------------------------------------------------------------------------
(* ML.py: DirectionRules and EngineAI                                      *)

Abs(n) == IF n < 0 THEN -n ELSE n

\* A faulty variant of _normalize_direction: the vector is returned as it is.
normalize_direction_as_is(dx, dy) == <<dx, dy>>

\* _normalize_direction
normalize_direction(dx, dy) ==
    IF dx = 0 /\ dy = 0 THEN <<0, 0>>
    ELSE IF dx = 0 THEN <<0, IF dy > 0 THEN 1 ELSE -1>>
    ELSE IF dy = 0 THEN <<IF dx > 0 THEN 1 ELSE -1, 0>>
    ELSE IF Abs(dx) = Abs(dy)
         THEN <<IF dx > 0 THEN 1 ELSE -1, IF dy > 0 THEN 1 ELSE -1>>
    ELSE <<dx, dy>>

\* DirectionRules.is_allowed
is_allowed(rules, piece_name, from_pos, to_pos) ==
    IF rules.allow_knight /\ piece_name = "Knight" THEN TRUE
    ELSE normalize_direction(to_pos[1] - from_pos[1], to_pos[2] - from_pos[2])
            \in rules.allowed_vectors

\* Game.__init__: ai_rules_black and ai_rules_white
ai_rules_black ==
    [allowed_vectors |-> {<<0, -1>>, <<-1, 0>>, <<1, 0>>, <<-1, -1>>, <<1, -1>>},
     allow_knight |-> TRUE]
ai_rules_white == None

FileChars == <<"a", "b", "c", "d", "e", "f", "g", "h">>
RankChars == <<"1", "2", "3", "4", "5", "6", "7", "8">>
IndexIn(seq, c) == CHOOSE i \in DOMAIN seq : seq[i] = c

\* EngineAI._to_uci: "e2e4" as <<"e", "2", "e", "4">>
to_uci(from_pos, to_pos) ==
    <<FileChars[from_pos[1] + 1], RankChars[from_pos[2] + 1],
      FileChars[to_pos[1] + 1], RankChars[to_pos[2] + 1]>>

\* A faulty variant of from_uci: the rank digit is taken as the rank index.
from_uci_one_based(uci) ==
    Move(<<IndexIn(FileChars, uci[1]) - 1, IndexIn(RankChars, uci[2])>>,
         <<IndexIn(FileChars, uci[3]) - 1, IndexIn(RankChars, uci[4])>>)

\* EngineAI._from_uci
from_uci(uci) ==
    Move(<<IndexIn(FileChars, uci[1]) - 1, IndexIn(RankChars, uci[2]) - 1>>,
         <<IndexIn(FileChars, uci[3]) - 1, IndexIn(RankChars, uci[4]) - 1>>)

\* The squares of a board move before and after the translation to and from
\* the engine's naming; `step` counts the translations done.
Translation(from_pos, to_pos) ==
    [from_pos |-> from_pos, to_pos |-> to_pos, uci |-> <<>>, move |-> None, step |-> 0]
NoTranslation == [step |-> 3]

\* A call of DirectionRules.is_allowed: the rules object, the arguments, and
\* the value returned once `step` is 1.
DirectionCall(rules, piece_name, from_pos, to_pos) ==
    [rules |-> rules, piece_name |-> piece_name, from_pos |-> from_pos,
     to_pos |-> to_pos, returned |-> FALSE, step |-> 0]
NoDirectionCall == [step |-> 2]

\* mv in b.legal_moves for b = chess.Board(chess_board.to_fen()) and mv the
\* four-character move from_pos -> to_pos: the move is legal in the exported
\* position.  A pawn move to the last rank carries a promotion letter there,
\* so python-chess holds no four-character move of a pawn to the last rank
\* legal.
fen_legal(b, player, from_pos, to_pos) ==
    LET piece == get_piece_at(b, from_pos)
    IN /\ piece # None
       /\ piece.color = player
       /\ ~(piece.name = "Pawn" /\ (to_pos[2] = 0 \/ to_pos[2] = 7))
       /\ to_pos \in get_poss_moves_for(b, player, piece)
       /\ ~LeavesKingAttacked(b, piece, to_pos)

\* A faulty variant of is_root_move: the direction rules are not consulted.
is_root_move_rules_ignored(b, player, rules, from_pos, to_pos) ==
    LET piece == get_piece_at(b, from_pos)
    IN /\ piece # None
       /\ fen_legal(b, player, from_pos, to_pos)

\* EngineAI.choose_move, lines 84-96: the test a pair of legal_moves passes
\* to be appended to root_moves.
is_root_move(b, player, rules, from_pos, to_pos) ==
    LET piece == get_piece_at(b, from_pos)
    IN /\ piece # None
       /\ rules = None \/ is_allowed(rules, piece.name, from_pos, to_pos)
       /\ fen_legal(b, player, from_pos, to_pos)

\* EngineAI.choose_move: the candidates offered to the engine, as uci strings.
root_moves(b, player, legal_moves, rules) ==
    UNION {{to_uci(from_pos, to_pos) :
                to_pos \in {t \in legal_moves[from_pos] :
                              is_root_move(b, player, rules, from_pos, t)}} :
              from_pos \in DOMAIN legal_moves}

\* EngineAI.choose_move, line 98: `not root_moves`.
no_root_moves(b, player, legal_moves, rules) ==
    \A from_pos \in DOMAIN legal_moves : \A to_pos \in legal_moves[from_pos] :
        ~is_root_move(b, player, rules, from_pos, to_pos)

\* A chess.Move of python-chess, by its uci string.
ChessMove(uci) == [uci |-> uci]

\* EngineAI.choose_move, with `best` the move of the engine's answer (None
\* for no move).
choose_move(b, player, legal_moves, rules, best) ==
    IF no_root_moves(b, player, legal_moves, rules) THEN None
    ELSE IF best = None THEN None
    ELSE from_uci(best.uci)

\* A faulty variant of make_ai_move_apply: the move is applied without the
\* test `to_pos in self.curr_poss_moves`.
make_ai_move_apply_unconfirmed(g1, piece, to_pos) ==
    IF g1.status = "crashed" THEN g1
    ELSE LET g2 == IF piece.name = "King" /\ to_pos \in
                        get_castle_moves_for_curr_player(g1.board, g1.curr_player)
                   THEN [add_move(g1, piece.position, to_pos) EXCEPT
                            !.board = castle_king(g1.board, piece, to_pos)]
                   ELSE PromoteAt(move_piece(add_move(g1, piece.position, to_pos),
                                             piece, to_pos),
                                  piece, to_pos)
         IN check_checkmate(RefreshMoves(change_curr_player(deselect_piece(g2))))

\* A faulty variant of make_ai_move_apply: a pawn that reaches the last rank
\* stays a pawn.
make_ai_move_apply_no_promotion(g1, piece, to_pos) ==
    IF g1.status = "crashed" THEN g1
    ELSE IF to_pos \in g1.curr_poss_moves
    THEN LET g2 == IF piece.name = "King" /\ to_pos \in
                        get_castle_moves_for_curr_player(g1.board, g1.curr_player)
                   THEN [add_move(g1, piece.position, to_pos) EXCEPT
                            !.board = castle_king(g1.board, piece, to_pos)]
                   ELSE move_piece(add_move(g1, piece.position, to_pos), piece, to_pos)
         IN check_checkmate(RefreshMoves(change_curr_player(deselect_piece(g2))))
    ELSE g1

\* Game.make_ai_move, lines 109-124, with g1 the game after
\* new_piece_selected(from_pos): the move is applied when to_pos is among
\* curr_poss_moves.
make_ai_move_apply(g1, piece, to_pos) ==
    IF g1.status = "crashed" THEN g1
    ELSE IF to_pos \in g1.curr_poss_moves
    THEN LET g2 == IF piece.name = "King" /\ to_pos \in
                        get_castle_moves_for_curr_player(g1.board, g1.curr_player)
                   THEN [add_move(g1, piece.position, to_pos) EXCEPT
                            !.board = castle_king(g1.board, piece, to_pos)]
                   ELSE PromoteAt(move_piece(add_move(g1, piece.position, to_pos),
                                             piece, to_pos),
                                  piece, to_pos)
         IN check_checkmate(RefreshMoves(change_curr_player(deselect_piece(g2))))
    ELSE g1

\* Game.make_ai_move, lines 98-107, with `move` the value of choose_move.
make_ai_move_select(g0, move) ==
    IF move = None THEN g0
    ELSE LET piece == get_piece_at(g0.board, move.from)
         IN IF piece = None THEN g0
            ELSE make_ai_move_apply(new_piece_selected(g0, move.from), piece, move.to)

\* Game.make_ai_move, lines 95-97, with g0 the game after the refresh of
\* all_poss_moves and `best` the engine's answer to choose_move.
make_ai_move_choose(g0, best) ==
    make_ai_move_select(g0,
        choose_move(g0.board, g0.curr_player, g0.all_poss_moves,
                    IF g0.curr_player = "b" THEN ai_rules_black ELSE ai_rules_white,
                    best))

\* Game.make_ai_move, with `best` the engine's answer to choose_move.
make_ai_move(g, best) ==
    IF g.ai = "None" THEN g
    ELSE make_ai_move_choose(RefreshMoves(g), best)

-----------------------------------------------------------------------------
(* MLBeta.py: the self-play trainer.  t is the state of simulate_game.     *)

max_moves == 100

\* board_to_tensor: piece_types
piece_types ==
    [Pawn |-> 0, Knight |-> 1, Bishop |-> 2, Rook |-> 3, Queen |-> 4, King |-> 5]

\* A faulty variant of board_to_tensor: the pieces of both colours share the
\* first six planes.
board_to_tensor_one_colour(chess_board) ==
    LET tensor == [channel \in 0..11 |-> [x \in 0..7 |-> [y \in 0..7 |->
                      LET piece == chess_board.board[x + 1][y + 1]
                      IN IF piece # None /\ channel = piece_types[piece.name]
                         THEN 1 ELSE 0]]]
    IN <<tensor>>

\* board_to_tensor(board): torch.zeros(12, 8, 8) with a 1 written at
\* [channel, x, y] for every piece, and a leading axis of length one
\* (unsqueeze(0)).  chess_board is the ChessBoard object.
board_to_tensor(chess_board) ==
    LET tensor == [channel \in 0..11 |-> [x \in 0..7 |-> [y \in 0..7 |->
                      LET piece == chess_board.board[x + 1][y + 1]
                      IN IF /\ piece # None
                            /\ channel = piece_types[piece.name]
                                            + (IF piece.color = "b" THEN 6 ELSE 0)
                         THEN 1 ELSE 0]]]
    IN <<tensor>>

\* ChessAITrainer.get_random_move: every value random.choice can yield
\* (None when no piece has a move).
get_random_move(b, player) ==
    LET possible_moves ==
            UNION {{Move(piece.position, to) : to \in get_poss_moves_for(b, player, piece)} :
                      piece \in get_curr_player_pieces(b, player)}
    IN IF possible_moves = {} THEN {None} ELSE possible_moves

\* ChessAITrainer.get_network_move: the best-scored possible move, for every
\* scoring the network can give (None when no piece has a move).
get_network_move(b, player) ==
    LET move_scores ==
            UNION {{Move(piece.position, to) : to \in get_poss_moves_for(b, player, piece)} :
                      piece \in get_curr_player_pieces(b, player)}
    IN IF move_scores = {} THEN {None} ELSE move_scores

\* ChessAITrainer.is_checkmate
is_checkmate(b, player) ==
    \A piece \in get_curr_player_pieces(b, player) : get_poss_moves_for(b, player, piece) = {}

\* One iteration of the loop of ChessAITrainer.simulate_game with `move` the
\* move chosen.
simulate_game_step(t, move) ==
    IF move = None THEN [t EXCEPT !.status = "done"]
    ELSE
    LET from_pos == move.from
        to_pos == move.to
        piece == get_piece_at(t.board, from_pos)
        moved == board_move_piece(t.board, piece, to_pos).board
        promoted == IF piece.name = "Pawn" /\ (to_pos[2] = 0 \/ to_pos[2] = 7)
                    THEN Put(moved, to_pos, Piece("Queen", t.curr_player, to_pos, FALSE))
                    ELSE moved
        next_player == IF t.curr_player = "b" THEN "w" ELSE "b"
    IN [board |-> promoted,
        curr_player |-> next_player,
        game_history |-> Append(t.game_history,
                                [tensor |-> board_to_tensor(t),
                                 from_pos |-> from_pos, to_pos |-> to_pos,
                                 player |-> t.curr_player]),
        move_count |-> t.move_count + 1,
        status |-> IF is_checkmate(promoted, next_player) \/ t.move_count + 1 >= max_moves
                   THEN "done" ELSE "running"]

-----------------------------------------------------------------------------
(* The inputs: the games played.  Moves are applied along the lines of     *)
(* Book, up to MaxPlies plies; every other input offered is one that the   *)
(* handlers do not answer with a move.                                     *)

MaxPlies == 19

\* f2f3 e7e5 g2g4 d8h4
FoolsMate ==
    <<
      Move(<<5, 1>>, <<5, 2>>), Move(<<4, 6>>, <<4, 4>>), Move(<<6, 1>>, <<6, 3>>),
      Move(<<3, 7>>, <<7, 3>>)
    >>

\* e2e4 e7e5 d1h5 b8c6 f1c4 g8f6 h5f7
ScholarsMate ==
    <<
      Move(<<4, 1>>, <<4, 3>>), Move(<<4, 6>>, <<4, 4>>), Move(<<3, 0>>, <<7, 4>>),
      Move(<<1, 7>>, <<2, 5>>), Move(<<5, 0>>, <<2, 3>>), Move(<<6, 7>>, <<5, 5>>),
      Move(<<7, 4>>, <<5, 6>>)
    >>

\* e2e4 e7e5 g1f3 g8f6 f1c4 f8c5 e1g1 e8g8
CastleShort ==
    <<
      Move(<<4, 1>>, <<4, 3>>), Move(<<4, 6>>, <<4, 4>>), Move(<<6, 0>>, <<5, 2>>),
      Move(<<6, 7>>, <<5, 5>>), Move(<<5, 0>>, <<2, 3>>), Move(<<5, 7>>, <<2, 4>>),
      Move(<<4, 0>>, <<6, 0>>), Move(<<4, 7>>, <<6, 7>>)
    >>

\* e2e4 e7e5 g1f3 g8f6 f1c4 f8c5 e1g1 c5f8
BishopRetreat ==
    <<
      Move(<<4, 1>>, <<4, 3>>), Move(<<4, 6>>, <<4, 4>>), Move(<<6, 0>>, <<5, 2>>),
      Move(<<6, 7>>, <<5, 5>>), Move(<<5, 0>>, <<2, 3>>), Move(<<5, 7>>, <<2, 4>>),
      Move(<<4, 0>>, <<6, 0>>), Move(<<2, 4>>, <<5, 7>>)
    >>

\* a2a4 b7b5 a4b5 a7a6 b5a6 c8b7 a6b7 b8c6 b7a8 d8a8
WhitePromotes ==
    <<
      Move(<<0, 1>>, <<0, 3>>), Move(<<1, 6>>, <<1, 4>>), Move(<<0, 3>>, <<1, 4>>),
      Move(<<0, 6>>, <<0, 5>>), Move(<<1, 4>>, <<0, 5>>), Move(<<2, 7>>, <<1, 6>>),
      Move(<<0, 5>>, <<1, 6>>), Move(<<1, 7>>, <<2, 5>>), Move(<<1, 6>>, <<0, 7>>),
      Move(<<3, 7>>, <<0, 7>>)
    >>

\* e2e4 a7a5 b2b4 a5b4 a2a3 b4a3 c1b2 a3b2 b1c3 b2a1 d1a1
BlackPromotes ==
    <<
      Move(<<4, 1>>, <<4, 3>>), Move(<<0, 6>>, <<0, 4>>), Move(<<1, 1>>, <<1, 3>>),
      Move(<<0, 4>>, <<1, 3>>), Move(<<0, 1>>, <<0, 2>>), Move(<<1, 3>>, <<0, 2>>),
      Move(<<2, 0>>, <<1, 1>>), Move(<<0, 2>>, <<1, 1>>), Move(<<1, 0>>, <<2, 2>>),
      Move(<<1, 1>>, <<0, 0>>), Move(<<3, 0>>, <<0, 0>>)
    >>

\* e2e3 a7a5 d1h5 a8a6 h5a5 h7h5 h2h4 a6h6 a5c7 f7f6 c7d7 e8f7 d7b7 d8d3 b7b8 d3h7 b8c8 f7g6 c8e6
Stalemate ==
    <<
      Move(<<4, 1>>, <<4, 2>>), Move(<<0, 6>>, <<0, 4>>), Move(<<3, 0>>, <<7, 4>>),
      Move(<<0, 7>>, <<0, 5>>), Move(<<7, 4>>, <<0, 4>>), Move(<<7, 6>>, <<7, 4>>),
      Move(<<7, 1>>, <<7, 3>>), Move(<<0, 5>>, <<7, 5>>), Move(<<0, 4>>, <<2, 6>>),
      Move(<<5, 6>>, <<5, 5>>), Move(<<2, 6>>, <<3, 6>>), Move(<<4, 7>>, <<5, 6>>),
      Move(<<3, 6>>, <<1, 6>>), Move(<<3, 7>>, <<3, 2>>), Move(<<1, 6>>, <<1, 7>>),
      Move(<<3, 2>>, <<7, 6>>), Move(<<1, 7>>, <<2, 7>>), Move(<<5, 6>>, <<6, 5>>),
      Move(<<2, 7>>, <<4, 5>>)
    >>

\* d2d4 d7d5 b1c3 b8c6 c1f4 c8f5 d1d2 d8d7 e1c1 e8c8
CastleLong ==
    <<
      Move(<<3, 1>>, <<3, 3>>), Move(<<3, 6>>, <<3, 4>>), Move(<<1, 0>>, <<2, 2>>),
      Move(<<1, 7>>, <<2, 5>>), Move(<<2, 0>>, <<5, 3>>), Move(<<2, 7>>, <<5, 4>>),
      Move(<<3, 0>>, <<3, 1>>), Move(<<3, 7>>, <<3, 6>>), Move(<<4, 0>>, <<2, 0>>),
      Move(<<4, 7>>, <<2, 7>>)
    >>

\* e2e4 e7e5 d1h5 f7f6 h5e8: f7f6 uncovers the king, h5e8 then takes it
KingHunt ==
    <<
      Move(<<4, 1>>, <<4, 3>>), Move(<<4, 6>>, <<4, 4>>), Move(<<3, 0>>, <<7, 4>>),
      Move(<<5, 6>>, <<5, 5>>), Move(<<7, 4>>, <<4, 7>>)
    >>

\* e2e4 e7e5 g1f3 g8f6 f1c4 f8c5 e1e2 a7a6 e2e1 a6a5: the king comes home
KingReturns ==
    <<
      Move(<<4, 1>>, <<4, 3>>), Move(<<4, 6>>, <<4, 4>>), Move(<<6, 0>>, <<5, 2>>),
      Move(<<6, 7>>, <<5, 5>>), Move(<<5, 0>>, <<2, 3>>), Move(<<5, 7>>, <<2, 4>>),
      Move(<<4, 0>>, <<4, 1>>), Move(<<0, 6>>, <<0, 5>>), Move(<<4, 1>>, <<4, 0>>),
      Move(<<0, 5>>, <<0, 4>>)
    >>

\* e2e4 e7e5 g1f3 g8f6 f1c4 f8c5 h1g1 a7a6 g1h1 a6a5: the rook comes home
RookReturns ==
    <<
      Move(<<4, 1>>, <<4, 3>>), Move(<<4, 6>>, <<4, 4>>), Move(<<6, 0>>, <<5, 2>>),
      Move(<<6, 7>>, <<5, 5>>), Move(<<5, 0>>, <<2, 3>>), Move(<<5, 7>>, <<2, 4>>),
      Move(<<7, 0>>, <<6, 0>>), Move(<<0, 6>>, <<0, 5>>), Move(<<6, 0>>, <<7, 0>>),
      Move(<<0, 5>>, <<0, 4>>)
    >>

\* e2e4 e7e5 g1f3 g8f6 f1c4 f8c5 d2d4 c5b4: the bishop gives check
CheckedKing ==
    <<
      Move(<<4, 1>>, <<4, 3>>), Move(<<4, 6>>, <<4, 4>>), Move(<<6, 0>>, <<5, 2>>),
      Move(<<6, 7>>, <<5, 5>>), Move(<<5, 0>>, <<2, 3>>), Move(<<5, 7>>, <<2, 4>>),
      Move(<<3, 1>>, <<3, 3>>), Move(<<2, 4>>, <<1, 3>>)
    >>

\* e2e4 e7e5 g1f3 g8f6 f1c4 f8c5 a2a3 f6e4 a3a4 e4g3: the knight attacks f1
AttackedPath ==
    <<
      Move(<<4, 1>>, <<4, 3>>), Move(<<4, 6>>, <<4, 4>>), Move(<<6, 0>>, <<5, 2>>),
      Move(<<6, 7>>, <<5, 5>>), Move(<<5, 0>>, <<2, 3>>), Move(<<5, 7>>, <<2, 4>>),
      Move(<<0, 1>>, <<0, 2>>), Move(<<5, 5>>, <<4, 3>>), Move(<<0, 2>>, <<0, 3>>),
      Move(<<4, 3>>, <<6, 2>>)
    >>

\* e2e4 e7e5 b1c3 d7d6 d1g4 e8e7 c3d5 e7e8: the knight gives check and the
\* king's one way out is back to e8
OnlyRetreat ==
    <<
      Move(<<4, 1>>, <<4, 3>>), Move(<<4, 6>>, <<4, 4>>), Move(<<1, 0>>, <<2, 2>>),
      Move(<<3, 6>>, <<3, 5>>), Move(<<3, 0>>, <<6, 3>>), Move(<<4, 7>>, <<4, 6>>),
      Move(<<2, 2>>, <<3, 4>>), Move(<<4, 6>>, <<4, 7>>)
    >>

Book == {FoolsMate, ScholarsMate, CastleShort, BishopRetreat, WhitePromotes,
         BlackPromotes, Stalemate, CastleLong, KingHunt, KingReturns, RookReturns,
         CheckedKing, AttackedPath, OnlyRetreat}

NoSquare == <<8, 8>>

FileIndex(letter) == IndexIn(FileLetters, letter) - 1
SpaceOfName(name) == <<FileIndex(name[1]), name[2] - 1>>

\* The moves applied so far, read from the program's own record of them.
MovesSoFar ==
    IF program = "Game"
    THEN [i \in DOMAIN played_moves |->
            Move(SpaceOfName(played_moves[i].from), SpaceOfName(played_moves[i].to))]
    ELSE [i \in DOMAIN game_history |->
            Move(game_history[i].from_pos, game_history[i].to_pos)]

BookNext ==
    LET h == MovesSoFar
    IN IF Len(h) >= MaxPlies THEN {}
       ELSE {l[Len(h) + 1] : l \in {k \in Book : /\ Len(k) > Len(h)
                                                  /\ \A i \in 1..Len(h) : k[i] = h[i]}}

\* Squares clicked and commands typed besides those of the book.
ProbeSquares == {<<3, 3>>, <<4, 1>>, <<8, 0>>}
ProbeCommands == {Move(<<3, 3>>, <<3, 4>>), Move(<<4, 1>>, <<4, 4>>),
                  Move(<<6, 7>>, <<6, 5>>)}
ProbeReplies == {Move(<<3, 3>>, <<3, 4>>), Move(<<4, 1>>, <<4, 2>>),
                 Move(<<6, 7>>, <<6, 5>>)}

\* The centre of the square's image in the window.
PixelOf(sq) == <<sq[1] * 75 + 37, (7 - sq[2]) * 75 + 37>>

IsLegal(m) == m.from \in DOMAIN all_poss_moves /\ m.to \in all_poss_moves[m.from]

ClickInputs == ProbeSquares \cup {m.from : m \in BookNext} \cup {m.to : m \in BookNext}

CommandInputs == BookNext \cup {m \in ProbeCommands : ~IsLegal(m)}

\* What the engine may answer: one of its candidates, no move, or a move
\* outside the candidates.
EngineReplies ==
    {None} \cup {ChessMove(to_uci(m.from, m.to)) :
                     m \in BookNext \cup {r \in ProbeReplies : ~IsLegal(r)}}

-----------------------------------------------------------------------------
(* Initial states and actions                                              *)

\* Game.__init__(ai_enabled, engine_path): the engine object exists iff
\* automated play is enabled and an engine path is given.
InitGame ==
    /\ program = "Game"
    /\ board = ChessBoardInit
    /\ curr_player = "w"
    /\ played_moves = <<>>
    /\ white_pieces_taken_images = <<>>
    /\ black_pieces_taken_images = <<>>
    /\ curr_selected_piece = None
    /\ curr_poss_moves = {}
    /\ all_poss_moves = get_all_poss_moves(ChessBoardInit, "w")
    /\ \E enabled \in BOOLEAN, engine_path \in BOOLEAN :
          /\ ai_enabled = enabled
          /\ ai = IF enabled /\ engine_path THEN "EngineAI" ELSE "None"
    /\ ai_thinking = FALSE
    /\ status = "running"
    /\ winner = "None"
    /\ last = [handler |-> "init", from |-> NoSquare, to |-> NoSquare]
    /\ move_count = 0
    /\ game_history = <<>>
    /\ translation = NoTranslation
    /\ direction_call = NoDirectionCall

\* ChessAITrainer.simulate_game before its first iteration.
InitTrainer ==
    /\ program = "Trainer"
    /\ board = ChessBoardInit
    /\ curr_player = "w"
    /\ played_moves = <<>>
    /\ white_pieces_taken_images = <<>>
    /\ black_pieces_taken_images = <<>>
    /\ curr_selected_piece = None
    /\ curr_poss_moves = {}
    /\ all_poss_moves = <<>>
    /\ ai_enabled = FALSE
    /\ ai = "None"
    /\ ai_thinking = FALSE
    /\ status = "running"
    /\ winner = "None"
    /\ last = [handler |-> "init", from |-> NoSquare, to |-> NoSquare]
    /\ move_count = 0
    /\ game_history = <<>>
    /\ translation = NoTranslation
    /\ direction_call = NoDirectionCall

Init == InitGame

InitAll == InitGame \/ InitTrainer

SetSelf(g) ==
    /\ board' = g.board
    /\ curr_player' = g.curr_player
    /\ played_moves' = g.played_moves
    /\ white_pieces_taken_images' = g.white_pieces_taken_images
    /\ black_pieces_taken_images' = g.black_pieces_taken_images
    /\ curr_selected_piece' = g.curr_selected_piece
    /\ curr_poss_moves' = g.curr_poss_moves
    /\ all_poss_moves' = g.all_poss_moves
    /\ status' = g.status
    /\ winner' = g.winner

SelectedSquare == IF curr_selected_piece = None THEN NoSquare ELSE curr_selected_piece.position

\* play_game, MOUSEBUTTONUP: a click on the square sq.
UserClick ==
    /\ program = "Game" /\ status = "running"
    /\ ~ai_thinking
    /\ ~ai_enabled \/ curr_player = "w"
    /\ \E sq \in ClickInputs :
          /\ (/\ curr_selected_piece # None
              /\ sq # curr_selected_piece.position
              /\ sq \in curr_poss_moves) => Move(curr_selected_piece.position, sq) \in BookNext
          /\ \E g \in {get_user_click(Self, PixelOf(sq)[1], PixelOf(sq)[2])} : SetSelf(g)
          /\ last' = [handler |-> "click", from |-> NoSquare, to |-> NoSquare]
    /\ UNCHANGED <<direction_call, translation, program, ai_enabled, ai, ai_thinking, move_count, game_history>>

\* play_game, K_RETURN: a command "x1 y1, x2 y2" typed at the prompt.
TypedCommand ==
    /\ program = "Game" /\ status = "running"
    /\ \E c \in CommandInputs :
          /\ \E g \in {get_valid_command(Self, c.from, c.to)} : SetSelf(g)
          /\ last' = [handler |-> "command", from |-> c.from, to |-> c.to]
    /\ UNCHANGED <<direction_call, translation, program, ai_enabled, ai, ai_thinking, move_count, game_history>>

\* play_game, K_a: toggle automated play.  Game.py never binds the name
\* ChessAI, so enabling it without an engine object raises NameError.
ToggleAI ==
    /\ program = "Game" /\ status = "running"
    /\ ai_enabled' = ~ai_enabled
    /\ status' = IF ~ai_enabled /\ ai = "None" THEN "crashed" ELSE status
    /\ last' = [handler |-> "toggle", from |-> NoSquare, to |-> NoSquare]
    /\ UNCHANGED <<direction_call, translation, program, board, curr_player, played_moves, white_pieces_taken_images,
                   black_pieces_taken_images, curr_selected_piece, curr_poss_moves,
                   all_poss_moves, ai, ai_thinking, winner, move_count, game_history>>

\* play_game, top of the loop: the engine's turn.
AIMove ==
    /\ program = "Game" /\ status = "running"
    /\ ai_enabled /\ curr_player = "b" /\ ~ai_thinking
    /\ \E best \in (IF ai = "None" THEN {None} ELSE EngineReplies) :
          /\ \E g \in {make_ai_move(Self, best)} : SetSelf(g)
          /\ last' = IF best = None
                     THEN [handler |-> "ai", from |-> NoSquare, to |-> NoSquare]
                     ELSE [handler |-> "ai", from |-> from_uci(best.uci).from,
                                            to |-> from_uci(best.uci).to]
    /\ UNCHANGED <<direction_call, translation, program, ai_enabled, ai, ai_thinking, move_count, game_history>>

\* One iteration of simulate_game.
SimulateStep ==
    /\ program = "Trainer" /\ status = "running"
    /\ move_count < max_moves
    /\ \E move \in {m \in get_random_move(board, curr_player)
                          \cup get_network_move(board, curr_player) :
                        m = None \/ m \in BookNext} :
          \E t \in {simulate_game_step([board |-> board, curr_player |-> curr_player,
                                        game_history |-> game_history,
                                        move_count |-> move_count, status |-> status],
                                       move)} :
             /\ board' = t.board
             /\ curr_player' = t.curr_player
             /\ game_history' = t.game_history
             /\ move_count' = t.move_count
             /\ status' = t.status
             /\ last' = IF move = None
                        THEN [handler |-> "simulate", from |-> NoSquare, to |-> NoSquare]
                        ELSE [handler |-> "simulate", from |-> move.from, to |-> move.to]
    /\ UNCHANGED <<direction_call, translation, program, played_moves, white_pieces_taken_images,
                   black_pieces_taken_images, curr_selected_piece, curr_poss_moves,
                   all_poss_moves, ai_enabled, ai, ai_thinking, winner>>

\* EngineAI._to_uci and EngineAI._from_uci, called on any pair of squares.
InitUci ==
    /\ program = "EngineAI"
    /\ board = ChessBoardInit
    /\ curr_player = "w"
    /\ played_moves = <<>>
    /\ white_pieces_taken_images = <<>>
    /\ black_pieces_taken_images = <<>>
    /\ curr_selected_piece = None
    /\ curr_poss_moves = {}
    /\ all_poss_moves = <<>>
    /\ ai_enabled = FALSE
    /\ ai = "EngineAI"
    /\ ai_thinking = FALSE
    /\ status = "running"
    /\ winner = "None"
    /\ last = [handler |-> "init", from |-> NoSquare, to |-> NoSquare]
    /\ move_count = 0
    /\ game_history = <<>>
    /\ \E from_pos \in Squares, to_pos \in Squares :
          translation = Translation(from_pos, to_pos)
    /\ direction_call = NoDirectionCall

ToUci ==
    /\ program = "EngineAI" /\ translation.step = 0
    /\ translation' = [translation EXCEPT
                          !.uci = to_uci(translation.from_pos, translation.to_pos),
                          !.step = 1]
    /\ UNCHANGED <<direction_call, program, board, curr_player, played_moves,
                   white_pieces_taken_images,
                   black_pieces_taken_images, curr_selected_piece, curr_poss_moves,
                   all_poss_moves, ai_enabled, ai, ai_thinking, status, winner, last,
                   move_count, game_history>>

FromUci ==
    /\ program = "EngineAI" /\ translation.step = 1
    /\ translation' = [translation EXCEPT !.move = from_uci(translation.uci), !.step = 2]
    /\ UNCHANGED <<direction_call, program, board, curr_player, played_moves,
                   white_pieces_taken_images,
                   black_pieces_taken_images, curr_selected_piece, curr_poss_moves,
                   all_poss_moves, ai_enabled, ai, ai_thinking, status, winner, last,
                   move_count, game_history>>

\* The rules objects is_allowed is called on: the one Game.__init__ builds
\* for Black, one that names a knight's vector and does not exempt knights,
\* and one with no vector at all.
DirectionRulesInputs ==
    {ai_rules_black,
     [allowed_vectors |-> {<<0, 1>>, <<1, 1>>, <<1, 2>>, <<-2, -1>>}, allow_knight |-> FALSE],
     [allowed_vectors |-> {}, allow_knight |-> TRUE]}

PieceNameInputs == {"Pawn", "Knight", "Bishop", "Rook", "Queen", "King"}

\* DirectionRules.is_allowed, called with any piece name and pair of squares.
InitRules ==
    /\ program = "DirectionRules"
    /\ board = ChessBoardInit
    /\ curr_player = "w"
    /\ played_moves = <<>>
    /\ white_pieces_taken_images = <<>>
    /\ black_pieces_taken_images = <<>>
    /\ curr_selected_piece = None
    /\ curr_poss_moves = {}
    /\ all_poss_moves = <<>>
    /\ ai_enabled = FALSE
    /\ ai = "None"
    /\ ai_thinking = FALSE
    /\ status = "running"
    /\ winner = "None"
    /\ last = [handler |-> "init", from |-> NoSquare, to |-> NoSquare]
    /\ move_count = 0
    /\ game_history = <<>>
    /\ translation = NoTranslation
    /\ \E rules \in DirectionRulesInputs, piece_name \in PieceNameInputs,
          from_pos \in Squares, to_pos \in Squares :
          direction_call = DirectionCall(rules, piece_name, from_pos, to_pos)

IsAllowed ==
    /\ program = "DirectionRules" /\ direction_call.step = 0
    /\ direction_call' =
          [direction_call EXCEPT
              !.returned = is_allowed(direction_call.rules, direction_call.piece_name,
                                      direction_call.from_pos, direction_call.to_pos),
              !.step = 1]
    /\ UNCHANGED <<translation, program, board, curr_player, played_moves,
                   white_pieces_taken_images, black_pieces_taken_images,
                   curr_selected_piece, curr_poss_moves, all_poss_moves, ai_enabled, ai,
                   ai_thinking, status, winner, last, move_count, game_history>>

\* play_game, top of the loop, with an engine whose answer is one of the
\* root_moves it was given whenever there is one.
AIMoveOfCandidates ==
    /\ AIMove
    /\ (ai = "EngineAI" /\ ~no_root_moves(board, curr_player, all_poss_moves, ai_rules_black))
          => /\ last'.from \in DOMAIN all_poss_moves
             /\ last'.to \in all_poss_moves[last'.from]
             /\ is_root_move(board, curr_player, ai_rules_black, last'.from, last'.to)

\* The guard of the engine's turn holds and one of the games played goes on
\* with a move that choose_move puts among the root_moves: a move of the
\* legal-move map that the rules allow and that python-chess, which writes a
\* pawn's move to the last rank with a promotion letter, holds legal.
EngineCanMove ==
    /\ program = "Game" /\ status = "running"
    /\ ai_enabled /\ curr_player = "b" /\ ~ai_thinking
    /\ ai = "EngineAI"
    /\ \E m \in BookNext :
          /\ IsLegal(m)
          /\ get_piece_at(board, m.from) # None
          /\ is_allowed(ai_rules_black, get_piece_at(board, m.from).name, m.from, m.to)
          /\ ~(get_piece_at(board, m.from).name = "Pawn" /\ m.to[2] \in {0, 7})

\* The step of AIMoveOfCandidates that applies a move, by its guard and what
\* it does to the turn: make_ai_move applies the engine's candidate and hands
\* the turn to White.
EngineMoves ==
    /\ EngineCanMove
    /\ curr_player' = "w"
    /\ last' \in [handler : {"ai"}, from : Squares, to : Squares]

Next == UserClick \/ TypedCommand \/ ToggleAI \/ AIMove

NextLive == UserClick \/ TypedCommand \/ ToggleAI \/ AIMoveOfCandidates

NextUci == ToUci \/ FromUci

\* The square translation of EngineAI (ML.py).
SpecUci == InitUci /\ [][NextUci]_vars

NextAll == Next \/ SimulateStep

\* The driver (Game.py).
Spec == Init /\ [][Next]_vars

NextRules == IsAllowed

\* The direction rules of ML.py.
SpecRules == InitRules /\ [][NextRules]_vars

\* The driver with an engine that answers with one of its candidates; the
\* loop of play_game runs the engine's turn at the top of every iteration.
SpecLive == Init /\ [][NextLive]_vars /\ WF_<<curr_player, last>>(EngineMoves)

\* The driver or the trainer (MLBeta.py).
SpecAll == InitAll /\ [][NextAll]_vars

-----------------------------------------------------------------------------
(* Properties                                                              *)

\* The first piece met from sq along d (None at the edge).
RECURSIVE FirstOnRay(_, _, _)
FirstOnRay(b, sq, d) ==
    LET nx == <<sq[1] + d[1], sq[2] + d[2]>> IN
    IF ~OnBoard(nx) THEN None
    ELSE IF At(b, nx) # None THEN At(b, nx)
    ELSE FirstOnRay(b, nx, d)

IsA(q, names, c) == q.name \in names /\ q.color = c

\* sq is attacked by a piece of color `by`, by the geometry of chess: a
\* knight a knight's jump away, a king next to it, a pawn diagonally behind
\* it, or a rook, bishop or queen first along a line.
Attacked(b, sq, by) ==
    \/ \E o \in KnightOffsets :
          IsA(get_piece_at(b, <<sq[1] + o[1], sq[2] + o[2]>>), {"Knight"}, by)
    \/ \E o \in Orthogonals \cup Diagonals :
          IsA(get_piece_at(b, <<sq[1] + o[1], sq[2] + o[2]>>), {"King"}, by)
    \/ \E dx \in {-1, 1} :
          IsA(get_piece_at(b, <<sq[1] + dx, sq[2] - (IF by = "w" THEN 1 ELSE -1)>>),
              {"Pawn"}, by)
    \/ \E d \in Orthogonals : IsA(FirstOnRay(b, sq, d), {"Rook", "Queen"}, by)
    \/ \E d \in Diagonals : IsA(FirstOnRay(b, sq, d), {"Bishop", "Queen"}, by)

KingSquaresOf(b, c) == {sq \in Squares : IsKingOf(At(b, sq), c)}

KingAttacked(b, c) == \E k \in KingSquaresOf(b, c) : Attacked(b, k, Opponent(c))

\* The grid after the move from -> to of `player`: castling when a king goes
\* to a castling destination, else relocation with capture and promotion.
BoardAfter(b, player, from, to) ==
    LET piece == At(b, from)
        moved == board_move_piece(b, piece, to).board
    IN IF piece.name = "King" /\ to \in get_castle_moves_for_curr_player(b, player)
       THEN castle_king(b, piece, to)
       ELSE IF piece.name = "Pawn" /\ (to[2] = 0 \/ to[2] = 7)
       THEN Put(moved, to, Piece("Queen", player, to, FALSE))
       ELSE moved

\* The legal-move map of the position, computed afresh.
LegalNow == get_all_poss_moves(board, curr_player)

InMap(m, from, to) == from \in DOMAIN m /\ to \in m[from]

\* The move the step has appended to the history.
AppliedMove == MovesSoFar[Len(MovesSoFar)]

Grid == <<board, curr_player, played_moves, white_pieces_taken_images,
          black_pieces_taken_images>>

\* C1: in every reachable position of the driver, no destination of the
\* legal-move map built by get_all_poss_moves leaves the mover's own king
\* attacked by an opposing piece once the move is made.
C1_LegalMovesNeverLeaveOwnKingAttacked ==
    LET m == get_all_poss_moves(board, curr_player)
        king == KingSquaresOf(board, curr_player)
    IN \A from \in DOMAIN m : \A to \in m[from] :
          LET after == BoardAfter(board, curr_player, from, to)
          IN \A k \in (IF At(board, from).name = "King" THEN {to} ELSE king) :
                ~Attacked(after, k, Opponent(curr_player))

\* The check filter has removed a pseudo-legal destination that uncovers the
\* king, and has kept others.
C1_Witness ==
    /\ status = "running"
    /\ \E from \in DOMAIN all_poss_moves :
          \E to \in get_poss_moves_for(board, curr_player, At(board, from)) :
             /\ to \notin all_poss_moves[from]
             /\ KingAttacked(BoardAfter(board, curr_player, from, to), curr_player)
    /\ \E from \in DOMAIN all_poss_moves : all_poss_moves[from] # {}

\* C2: whichever handler runs (click, typed command, engine move), a step
\* that changes the grid applies exactly one move from -> to, where `from`
\* holds a piece of the side to move and `to` is in the entry of `from` in
\* the legal-move map of the board as it is before the step.
C2_BoardChangesOnlyByLegalMove ==
    [][board' # board =>
          /\ last'.handler \in {"click", "command", "ai"}
          /\ Len(played_moves') = Len(played_moves) + 1
          /\ LET mv == AppliedMove'
             IN /\ IsA(get_piece_at(board, mv.from),
                       {"Pawn", "Knight", "Bishop", "Rook", "Queen", "King"}, curr_player)
                /\ InMap(LegalNow, mv.from, mv.to)
                /\ board' = BoardAfter(board, curr_player, mv.from, mv.to)]_vars

\* The engine path has applied a castling move of Black.
C2_Witness ==
    /\ last = [handler |-> "ai", from |-> <<4, 7>>, to |-> <<6, 7>>]
    /\ IsKingOf(At(board, <<6, 7>>), "b")
    /\ At(board, <<5, 7>>).name = "Rook"
    /\ curr_player = "w"

\* C3: the side to move flips on every step that applies a move and on no
\* other step, so it is White exactly when the number of applied moves is
\* even.
C3_SideFlipsOncePerAppliedMove ==
    /\ [](curr_player = IF Len(played_moves) % 2 = 0 THEN "w" ELSE "b")
    /\ [][IF board' # board
          THEN curr_player' = Opponent(curr_player)
          ELSE curr_player' = curr_player]_vars

\* Ten moves have been applied, captures of both colours and a promotion
\* among them, and it is White's turn again.
C3_Witness ==
    /\ program = "Game"
    /\ Len(played_moves) = 10
    /\ curr_player = "w"
    /\ Len(white_pieces_taken_images) >= 1
    /\ Len(black_pieces_taken_images) >= 1
    /\ IsA(At(board, <<0, 7>>), {"Queen"}, "b")

\* C4: the step that applies a move leaves all_poss_moves equal to the map
\* of the new side to move and reports game over exactly when every entry
\* of that map is empty, king attacked or not; the winner it names is the
\* side that made the move; game over is reported by no other step.
C4_GameOverIffNoLegalMove ==
    [][/\ board' # board =>
            LET fresh == get_all_poss_moves(board', curr_player')
                over == \A pos \in DOMAIN fresh : fresh[pos] = {}
            IN /\ all_poss_moves' = fresh
               /\ (status' = "checkmate") <=> over
               /\ over => winner' = (IF curr_player = "w" THEN "White" ELSE "Black")
       /\ (status' = "checkmate" /\ status # "checkmate") => board' # board]_vars

\* Game over has been reported for a side whose king is not attacked.
C4_Witness ==
    /\ status = "checkmate"
    /\ winner = "White"
    /\ curr_player = "b"
    /\ ~KingAttacked(board, "b")

PawnsOf(b, c) == Cardinality({sq \in Squares : IsA(At(b, sq), {"Pawn"}, c)})

\* C5: in every path that applies moves (click, typed command, engine move,
\* self-play), a step that moves a Pawn to its last rank leaves a Queen of
\* the mover's colour on the destination, and the pawn is gone from the
\* board.
C5_PromotionToQueenOfMover ==
    [][board' # board =>
          LET mv == AppliedMove'
              piece == At(board, mv.from)
          IN (piece.name = "Pawn" /\ mv.to[2] = (IF piece.color = "w" THEN 7 ELSE 0)) =>
                /\ piece.color = curr_player
                /\ IsA(At(board', mv.to), {"Queen"}, curr_player)
                /\ At(board', mv.to).position = mv.to
                /\ At(board', mv.from) = None
                /\ PawnsOf(board', curr_player) = PawnsOf(board, curr_player) - 1]_vars

\* The self-play simulation has moved a white pawn to a8.
C5_Witness ==
    /\ program = "Trainer"
    /\ last = [handler |-> "simulate", from |-> <<1, 6>>, to |-> <<0, 7>>]
    /\ IsA(At(board, <<0, 7>>), {"Queen"}, "w")

\* C6: in every position the driver reaches, the board holds exactly one
\* king of each colour, and every piece stands on the one square it takes
\* itself to be on, so no two pieces occupy the same square.
C6_OneKingEachAndNoSharedSquare ==
    /\ \A c \in {"w", "b"} : Cardinality(KingSquaresOf(board, c)) = 1
    /\ \A sq \in Squares : At(board, sq) # None => At(board, sq).position = sq

\* Eleven moves have been applied, with captures, a promotion and the
\* capture of the promoted piece.
C6_Witness ==
    /\ program = "Game"
    /\ Len(played_moves) = 11
    /\ Len(white_pieces_taken_images) >= 3
    /\ Len(black_pieces_taken_images) >= 1

\* The typed command from -> to is one get_valid_command rejects.
CommandRejected(from, to) ==
    \/ ~IsA(get_piece_at(board, from),
            {"Pawn", "Knight", "Bishop", "Rook", "Queen", "King"}, curr_player)
    \/ ~InMap(LegalNow, from, to)

\* C7: a typed command whose source square holds no piece of the side to
\* move, or whose destination is not in the map entry of the source square,
\* leaves the grid, the side to move, the move history and the
\* captured-piece lists unchanged.
C7_RejectedCommandChangesNothing ==
    [][(last'.handler = "command" /\ CommandRejected(last'.from, last'.to))
          => UNCHANGED Grid]_vars

\* The command f7-f6, which uncovers the black king, has been typed and
\* rejected.
C7_Witness ==
    /\ last = [handler |-> "command", from |-> <<5, 6>>, to |-> <<5, 5>>]
    /\ Len(played_moves) = 3
    /\ IsA(At(board, <<5, 6>>), {"Pawn"}, "b")
    /\ curr_selected_piece = At(board, <<5, 6>>)

\* What the caller of get_valid_command is given: the value returned and
\* whether an exception reaches it.
Signal(g, c) ==
    [returned |-> get_valid_command_returns(g, c.from, c.to),
     raised |-> get_valid_command(g, c.from, c.to).status = "crashed"]

\* C8: a rejected typed command is signalled to the caller: what the call of
\* get_valid_command gives its caller differs from what it gives for an
\* accepted move.
C8_RejectionSignalled ==
    status = "running" =>
        \A rej \in {c \in CommandInputs : CommandRejected(c.from, c.to)} :
            \A acc \in {c \in CommandInputs : ~CommandRejected(c.from, c.to)} :
                Signal(Self, rej) # Signal(Self, acc)

\* The engine call of the step yields no move: no engine object, no
\* candidate, or no best move.
NoEngineMove ==
    \/ ai = "None"
    \/ no_root_moves(board, curr_player, LegalNow,
                     IF curr_player = "b" THEN ai_rules_black ELSE ai_rules_white)
    \/ last'.from = NoSquare

\* C9: when the engine call in make_ai_move yields no move, the grid, the
\* side to move, the move history and the captured-piece lists are
\* unchanged; make_ai_move changes the grid only by a move found in the
\* legal-move map.
C9_NoEngineMoveChangesNothing ==
    [][last'.handler = "ai" =>
          /\ NoEngineMove => UNCHANGED Grid
          /\ board' # board => InMap(LegalNow, last'.from, last'.to)]_vars

\* The engine has been asked for Black's first move, with candidates at
\* hand, and has returned no move.
C9_Witness ==
    /\ last = [handler |-> "ai", from |-> NoSquare, to |-> NoSquare]
    /\ ai = "EngineAI" /\ ai_enabled
    /\ curr_player = "b"
    /\ Len(played_moves) = 1
    /\ status = "running"

\* C10: an engine move outside the candidate set supplied to the engine is
\* treated as no move: nothing is applied, the turn is not advanced and the
\* driver keeps running.
C10_MoveOutsideCandidatesIsNoMove ==
    [][(/\ last'.handler = "ai"
        /\ ai = "EngineAI" /\ ai_enabled /\ curr_player = "b" /\ status = "running"
        /\ last'.from # NoSquare
        /\ to_uci(last'.from, last'.to) \notin
              root_moves(board, curr_player, LegalNow, ai_rules_black))
          => /\ UNCHANGED Grid
             /\ status' = "running"]_vars

-----------------------------------------------------------------------------
(* EngineAI.choose_move                                                     *)

\* The rules make_ai_move passes for the side to move (Game.py line 95), and
\* no rules.
RulesInputs == {IF curr_player = "b" THEN ai_rules_black ELSE ai_rules_white, None}

\* The maps passed as legal_moves: the driver's map, and the map of the
\* starting position, whose keys may by now be empty squares or hold pieces
\* of the side not to move.
LegalMovesInputs == {all_poss_moves, get_all_poss_moves(ChessBoardInit, "w")}

\* A BoardMove of ML.py: a pair of squares.
IsBoardMove(m) == m.from \in Squares /\ m.to \in Squares

\* C11: every candidate choose_move offers the engine is a pair (from, to)
\* with `to` in legal_moves[from], a piece on `from`, and, when rules are
\* given, allowed by them; with no candidate the result is "no move"
\* whatever the engine would answer; otherwise the result is one move or
\* "no move".
C11_CandidatesFilteredAndOneMoveBack ==
    \A legal_moves \in LegalMovesInputs : \A rules \in RulesInputs :
        LET offered == root_moves(board, curr_player, legal_moves, rules)
        IN /\ \A uci \in offered :
                LET m == from_uci(uci)
                    piece == get_piece_at(board, m.from)
                IN /\ InMap(legal_moves, m.from, m.to)
                   /\ piece # None
                   /\ rules # None => is_allowed(rules, piece.name, m.from, m.to)
           /\ \A best \in EngineReplies :
                LET move == choose_move(board, curr_player, legal_moves, rules, best)
                IN /\ offered = {} => move = None
                   /\ move = None \/ IsBoardMove(move)
                   /\ best = None => move = None

\* The engine has been asked for a move of Black in a position where the
\* rules of Black strike a legal move from the candidates (the retreat
\* c5-f8) and leave others.
C11_Witness ==
    /\ last.handler = "ai" /\ ai = "EngineAI" /\ curr_player = "b"
    /\ status = "running"
    /\ InMap(all_poss_moves, <<2, 4>>, <<5, 7>>)
    /\ to_uci(<<2, 4>>, <<5, 7>>) \notin
          root_moves(board, curr_player, all_poss_moves, ai_rules_black)
    /\ root_moves(board, curr_player, all_poss_moves, ai_rules_black) # {}
    /\ root_moves(board, curr_player, get_all_poss_moves(ChessBoardInit, "w"),
                  ai_rules_black) = {}

-----------------------------------------------------------------------------
(* EngineAI._to_uci and EngineAI._from_uci                                  *)

FileLetterOf(x) ==
    CASE x = 0 -> "a" [] x = 1 -> "b" [] x = 2 -> "c" [] x = 3 -> "d"
      [] x = 4 -> "e" [] x = 5 -> "f" [] x = 6 -> "g" [] x = 7 -> "h"

RankDigitOf(y) ==
    CASE y = 0 -> "1" [] y = 1 -> "2" [] y = 2 -> "3" [] y = 3 -> "4"
      [] y = 4 -> "5" [] y = 5 -> "6" [] y = 6 -> "7" [] y = 7 -> "8"

\* C12: for every pair of squares, _to_uci names file 0..7 as a..h and rank
\* 0..7 as 1..8, and _from_uci of that string is the pair again.
C12_UciRoundTrip ==
    /\ translation.step \in {1, 2} =>
          translation.uci = <<FileLetterOf(translation.from_pos[1]),
                              RankDigitOf(translation.from_pos[2]),
                              FileLetterOf(translation.to_pos[1]),
                              RankDigitOf(translation.to_pos[2])>>
    /\ translation.step = 2 =>
          translation.move = Move(translation.from_pos, translation.to_pos)

\* h8-a1 has been translated to "h8a1" and back.
C12_Witness ==
    /\ translation.step = 2
    /\ translation.from_pos = <<7, 7>> /\ translation.to_pos = <<0, 0>>
    /\ translation.uci = <<"h", "8", "a", "1">>

-----------------------------------------------------------------------------
(* Scenarios                                                               *)

\* f2-f3, e7-e5, g2-g4, d8-h4 as the driver records them.
FoolsMatePlayed ==
    << [player |-> "W", from |-> <<"F", 2>>, to |-> <<"F", 3>>],
       [player |-> "B", from |-> <<"E", 7>>, to |-> <<"E", 5>>],
       [player |-> "W", from |-> <<"G", 2>>, to |-> <<"G", 4>>],
       [player |-> "B", from |-> <<"D", 8>>, to |-> <<"H", 4>> ] >>

PiecesOn(b, c) == {sq \in Squares : At(b, sq) # None /\ At(b, sq).color = c}

\* C13: each of f2-f3, e7-e5, g2-g4, d8-h4 is in the legal-move map when its
\* turn comes; after the fourth, the map of White has an entry for each of
\* the 16 White pieces, every entry is empty, and the driver has reported
\* checkmate with Black as winner.
C13_FoolsMate ==
    program = "Game" =>
        /\ \A k \in 0..3 :
              played_moves = SubSeq(FoolsMatePlayed, 1, k) =>
                  InMap(all_poss_moves, FoolsMate[k + 1].from, FoolsMate[k + 1].to)
        /\ played_moves = FoolsMatePlayed =>
              /\ curr_player = "w"
              /\ DOMAIN all_poss_moves = PiecesOn(board, "w")
              /\ Cardinality(DOMAIN all_poss_moves) = 16
              /\ \A pos \in DOMAIN all_poss_moves : all_poss_moves[pos] = {}
              /\ KingAttacked(board, "w")
              /\ status = "checkmate"
              /\ winner = "Black"

\* The four moves have been applied, the last by the engine.
C13_Witness ==
    /\ played_moves = FoolsMatePlayed
    /\ last = [handler |-> "ai", from |-> <<3, 7>>, to |-> <<7, 3>>]
    /\ At(board, <<7, 3>>) # None /\ At(board, <<7, 3>>).name = "Queen"

RECURSIVE SumOver(_, _)
\* The number of destinations the map m holds over the squares of S.
SumOver(m, S) ==
    IF S = {} THEN 0
    ELSE LET sq == CHOOSE x \in S : TRUE
         IN Cardinality(m[sq]) + SumOver(m, S \ {sq})

SquaresOfKind(b, c, name) == {sq \in Squares : IsA(At(b, sq), {name}, c)}

\* C14: before any move, the legal-move map holds an entry for each of the
\* 16 White pieces and 20 destinations in all: the one-step and the
\* two-step advance of each pawn, two jumps of each knight, nothing else.
C14_TwentyInitialMoves ==
    (program = "Game" /\ played_moves = <<>>) =>
        /\ board = ChessBoardInit /\ curr_player = "w"
        /\ DOMAIN all_poss_moves = PiecesOn(board, "w")
        /\ SumOver(all_poss_moves, DOMAIN all_poss_moves) = 20
        /\ SumOver(all_poss_moves, SquaresOfKind(board, "w", "Pawn")) = 16
        /\ SumOver(all_poss_moves, SquaresOfKind(board, "w", "Knight")) = 4
        /\ \A x \in Coord : all_poss_moves[<<x, 1>>] = {<<x, 2>>, <<x, 3>>}
        /\ all_poss_moves[<<1, 0>>] = {<<0, 2>>, <<2, 2>>}
        /\ all_poss_moves[<<6, 0>>] = {<<5, 2>>, <<7, 2>>}
        /\ \A x \in Coord \ {1, 6} : all_poss_moves[<<x, 0>>] = {}

\* The game as created, before any input.
C14_Witness ==
    /\ program = "Game"
    /\ last.handler = "init"
    /\ played_moves = <<>>
    /\ Cardinality(DOMAIN all_poss_moves) = 16

-----------------------------------------------------------------------------
(* Castling                                                                *)

CastleSides == {"king-side", "queen-side"}
RookHome(c, side) == <<IF side = "king-side" THEN 7 ELSE 0, HomeRank(c)>>
KingHome(c) == <<4, HomeRank(c)>>
CastleDest(c, side) == <<IF side = "king-side" THEN 6 ELSE 2, HomeRank(c)>>
\* The squares between king and rook, and those the king passes through.
BetweenFiles(side) == IF side = "king-side" THEN {5, 6} ELSE {1, 2, 3}
PassedFiles(side) == IF side = "king-side" THEN {5, 6} ELSE {3, 2}

\* No applied move has started from, or ended on, the square sq.
Untouched(sq) == \A i \in DOMAIN MovesSoFar : MovesSoFar[i].from # sq /\ MovesSoFar[i].to # sq

\* The five preconditions of castling (4.3), read from the grid and from the
\* history of applied moves.
KingNotMoved(c) == IsKingOf(At(board, KingHome(c)), c) /\ Untouched(KingHome(c))
RookNotMoved(c, side) ==
    /\ At(board, RookHome(c, side)) # None
    /\ IsA(At(board, RookHome(c, side)), {"Rook"}, c)
    /\ Untouched(RookHome(c, side))
BetweenEmpty(c, side) == \A x \in BetweenFiles(side) : At(board, <<x, HomeRank(c)>>) = None
KingNotAttacked(c) == ~Attacked(board, KingHome(c), Opponent(c))
PathNotAttacked(c, side) ==
    \A x \in PassedFiles(side) : ~Attacked(board, <<x, HomeRank(c)>>, Opponent(c))

\* The legal-move map offers the king of the side to move, on its home
\* square, the castling destination of `side`.
CastleOffered(side) ==
    /\ IsKingOf(At(board, KingHome(curr_player)), curr_player)
    /\ InMap(all_poss_moves, KingHome(curr_player), CastleDest(curr_player, side))

\* C15: a castling destination is offered to the side to move only when the
\* king has not moved, the rook of that side has not moved, the squares
\* between them are empty, the king is not attacked, and no square the king
\* passes through, the destination included, is attacked.
C15_CastlingOnlyWithAllPreconditions ==
    program = "Game" =>
        \A side \in CastleSides :
            CastleOffered(side) =>
                /\ KingNotMoved(curr_player)
                /\ RookNotMoved(curr_player, side)
                /\ BetweenEmpty(curr_player, side)
                /\ KingNotAttacked(curr_player)
                /\ PathNotAttacked(curr_player, side)

\* White may castle king-side and all five preconditions hold.
C15_Witness ==
    /\ program = "Game" /\ curr_player = "w"
    /\ CastleOffered("king-side")
    /\ KingNotMoved("w") /\ RookNotMoved("w", "king-side")
    /\ BetweenEmpty("w", "king-side")
    /\ KingNotAttacked("w") /\ PathNotAttacked("w", "king-side")

\* The castling right of color c on `side`, derived from the grid b: the
\* king and the rook of that side stand on their home squares and neither
\* is marked as moved.
CastlingRight(b, c, side) ==
    LET k == At(b, KingHome(c))
        q == At(b, RookHome(c, side))
    IN /\ IsKingOf(k, c) /\ ~k.has_moved
       /\ q # None /\ IsA(q, {"Rook"}, c) /\ ~q.has_moved

\* The step applies a move of the king of the side to move from its home
\* square two files towards `side`.
CastlingStep(side) ==
    /\ board' # board
    /\ Len(played_moves') = Len(played_moves) + 1
    /\ IsKingOf(At(board, KingHome(curr_player)), curr_player)
    /\ played_moves'[Len(played_moves')].from =
          convert_coordinate_to_space_name(KingHome(curr_player))
    /\ played_moves'[Len(played_moves')].to =
          convert_coordinate_to_space_name(CastleDest(curr_player, side))

RookDest(c, side) == <<IF side = "king-side" THEN 5 ELSE 3, HomeRank(c)>>

\* C16: a castling move applied by the driver puts, in that one step, the
\* king on its destination and the rook of that side next to it on the
\* inner side, both marked as moved, leaves their home squares empty and
\* every other square as it was; and a castling right that is false is
\* false after every step.
C16_CastlingAtomicAndRightsMonotone ==
    [][program = "Game" =>
          /\ \A side \in CastleSides :
                CastlingStep(side) =>
                    LET c == curr_player
                        touched == {KingHome(c), RookHome(c, side),
                                    CastleDest(c, side), RookDest(c, side)}
                    IN /\ At(board', CastleDest(c, side)) =
                             Piece("King", c, CastleDest(c, side), TRUE)
                       /\ At(board', RookDest(c, side)) =
                             Piece("Rook", c, RookDest(c, side), TRUE)
                       /\ At(board', KingHome(c)) = None
                       /\ At(board', RookHome(c, side)) = None
                       /\ \A sq \in Squares \ touched : At(board', sq) = At(board, sq)
                       /\ \A s2 \in CastleSides : ~CastlingRight(board', c, s2)
          /\ \A c \in {"w", "b"} : \A side \in CastleSides :
                ~CastlingRight(board, c, side) => ~CastlingRight(board', c, side)]_vars

\* White has castled queen-side by a typed command; Black's rights stand.
C16_Witness ==
    /\ program = "Game"
    /\ last = [handler |-> "command", from |-> <<4, 0>>, to |-> <<2, 0>>]
    /\ At(board, <<2, 0>>) = Piece("King", "w", <<2, 0>>, TRUE)
    /\ At(board, <<3, 0>>) = Piece("Rook", "w", <<3, 0>>, TRUE)
    /\ ~CastlingRight(board, "w", "king-side")
    /\ CastlingRight(board, "b", "queen-side")

-----------------------------------------------------------------------------
(* board_to_tensor                                                         *)

PlaneOf(piece) ==
    (CASE piece.name = "Pawn" -> 0 [] piece.name = "Knight" -> 1
       [] piece.name = "Bishop" -> 2 [] piece.name = "Rook" -> 3
       [] piece.name = "Queen" -> 4 [] piece.name = "King" -> 5)
    + (IF piece.color = "b" THEN 6 ELSE 0)

Cells == (0..11) \X Coord \X Coord

\* The tensor t is the encoding of the grid b: one batch of 12 planes of
\* 8 x 8 cells, each 0 or 1, with a 1 exactly at (plane, x, y) for the piece
\* on (x, y) and its plane; as many ones as pieces.
EncodingOf(t, b) ==
    /\ Len(t) = 1
    /\ DOMAIN t[1] = 0..11
    /\ \A c \in Cells :
          /\ t[1][c[1]][c[2]][c[3]] \in {0, 1}
          /\ t[1][c[1]][c[2]][c[3]] = 1 <=>
                (/\ At(b, <<c[2], c[3]>>) # None
                 /\ PlaneOf(At(b, <<c[2], c[3]>>)) = c[1])
    /\ Cardinality({c \in Cells : t[1][c[1]][c[2]][c[3]] = 1}) =
          Cardinality({sq \in Squares : At(b, sq) # None})

ChessBoardObject(b, player) == [board |-> b, curr_player |-> player]

\* C17: board_to_tensor of any reachable board is its encoding, the same
\* for either side to move; the tensor simulate_game stores with a move is
\* the encoding of the board the move is then applied to, every square
\* other than the move's two being left as it was.
C17_TensorIsOccupancyEncoding ==
    /\ [](/\ EncodingOf(board_to_tensor(ChessBoardObject(board, curr_player)), board)
          /\ board_to_tensor(ChessBoardObject(board, "w")) =
                board_to_tensor(ChessBoardObject(board, "b")))
    /\ [][(program = "Trainer" /\ Len(game_history') = Len(game_history) + 1) =>
             LET entry == game_history'[Len(game_history')]
             IN /\ EncodingOf(entry.tensor, board)
                /\ \A sq \in Squares \ {entry.from_pos, entry.to_pos} :
                      At(board', sq) = At(board, sq)]_vars

\* simulate_game has stored, with Black's second move, the encoding of a
\* board with the pawns on e4 and e5 and the queen on h5.
C17_Witness ==
    /\ program = "Trainer"
    /\ Len(game_history) = 4
    /\ game_history[4].tensor[1][0][4][3] = 1
    /\ game_history[4].tensor[1][6][4][4] = 1
    /\ game_history[4].tensor[1][4][7][4] = 1
    /\ game_history[4].tensor[1][4][3][0] = 0

-----------------------------------------------------------------------------
(* The self-play loop                                                      *)

Kings(b) == {sq \in Squares : At(b, sq) # None /\ At(b, sq).name = "King"}

\* C18: every move simulate_game applies is in the legal-move map of the
\* position it is applied to, leaves the mover's own king unattacked, and
\* takes no king.
C18_SelfPlayMovesLegal ==
    [][(program = "Trainer" /\ Len(game_history') = Len(game_history) + 1) =>
          LET entry == game_history'[Len(game_history')]
          IN /\ InMap(LegalNow, entry.from_pos, entry.to_pos)
             /\ ~KingAttacked(board', curr_player)
             /\ Cardinality(Kings(board')) = Cardinality(Kings(board))]_vars

\* C19: on every position, ChessAITrainer.is_checkmate is true exactly when
\* every entry of the legal-move map of the side to move is empty, which is
\* when Game.check_checkmate reports game over.
C19_IsCheckmateAgreesWithDriver ==
    is_checkmate(board, curr_player) <=>
        IsCheckmate([all_poss_moves |-> get_all_poss_moves(board, curr_player)])

-----------------------------------------------------------------------------
(* The move history                                                        *)

SpaceName(sq) ==
    <<CASE sq[1] = 0 -> "A" [] sq[1] = 1 -> "B" [] sq[1] = 2 -> "C" [] sq[1] = 3 -> "D"
        [] sq[1] = 4 -> "E" [] sq[1] = 5 -> "F" [] sq[1] = 6 -> "G" [] sq[1] = 7 -> "H",
      sq[2] + 1>>

\* In this step a piece of the side to move leaves `from` and stands on `to`
\* afterwards (as itself, or as a queen for a pawn); when the king of that
\* side changes square, it is the king that is meant.
MovedInStep(from, to) ==
    LET p == At(board, from)
        q == At(board', to)
    IN /\ p # None /\ p.color = curr_player
       /\ At(board', from) = None
       /\ q # None /\ q.color = curr_player /\ q.position = to
       /\ At(board, to) = None \/ At(board, to).color # curr_player
       /\ q.name = p.name \/ (p.name = "Pawn" /\ q.name = "Queen")
       /\ KingSquaresOf(board', curr_player) # KingSquaresOf(board, curr_player)
             => p.name = "King"

-----------------------------------------------------------------------------
(* The cached legal-move map                                               *)

\* C21: in every state of the driver, all_poss_moves is the legal-move map
\* computed afresh from the grid and the side to move, and its keys are the
\* squares of the pieces of the side to move.
C21_CachedMapIsFresh ==
    program = "Game" =>
        /\ all_poss_moves = get_all_poss_moves(board, curr_player)
        /\ DOMAIN all_poss_moves = PiecesOn(board, curr_player)

\* After a2-a1 by capture and promotion, applied by clicks, the map of White
\* has no entry for the rook taken on a1 and lets the queen take on a1.
C21_Witness ==
    /\ program = "Game" /\ status = "running"
    /\ Len(played_moves) = 10
    /\ last.handler = "click"
    /\ IsA(At(board, <<0, 0>>), {"Queen"}, "b")
    /\ <<0, 0>> \notin DOMAIN all_poss_moves
    /\ InMap(all_poss_moves, <<3, 0>>, <<0, 0>>)

-----------------------------------------------------------------------------
(* Conservation of the pieces                                              *)

PiecesAtStart == 16

\* The captured list of colour c.
TakenOf(c) == IF c = "w" THEN white_pieces_taken_images ELSE black_pieces_taken_images

\* The captured list of colour c after the step.
TakenOfNext(c) ==
    IF c = "w" THEN white_pieces_taken_images' ELSE black_pieces_taken_images'

\* The squares where a piece of the side not to move stands before the step
\* and no longer stands after it.
TakenInStep ==
    {sq \in Squares :
        /\ At(board, sq) # None /\ At(board, sq).color # curr_player
        /\ At(board', sq) = None \/ At(board', sq).color = curr_player}

\* C22: in the driver, the pieces of each colour on the grid and the entries
\* of that colour's captured list are 16 together; a step that takes a piece
\* off the grid takes exactly one and appends its image to the list of its
\* colour, leaving the other list alone; any other step (a quiet move, a
\* promotion, castling, a rejected input) leaves both lists as they are.
C22_PiecesConserved ==
    /\ [](program = "Game" =>
             \A c \in {"w", "b"} :
                 Cardinality(PiecesOn(board, c)) + Len(TakenOf(c)) = PiecesAtStart)
    /\ [][program = "Game" =>
             /\ Cardinality(TakenInStep) <= 1
             /\ \A sq \in TakenInStep :
                   LET victim == At(board, sq)
                   IN /\ TakenOfNext(victim.color) =
                            Append(TakenOf(victim.color), Image(victim))
                      /\ TakenOfNext(curr_player) = TakenOf(curr_player)
             /\ TakenInStep = {} =>
                   /\ white_pieces_taken_images' = white_pieces_taken_images
                   /\ black_pieces_taken_images' = black_pieces_taken_images]_vars

\* A black pawn has been promoted on a capture: Black still has 16 pieces,
\* two of them queens and seven pawns, and White's list holds the pieces
\* taken, the last of them the rook of a1.
C22_Witness ==
    /\ program = "Game"
    /\ Len(white_pieces_taken_images) >= 2
    /\ white_pieces_taken_images[Len(white_pieces_taken_images)] = <<"w", "Rook">>
    /\ Len(black_pieces_taken_images) = 0
    /\ Cardinality(PiecesOn(board, "b")) = PiecesAtStart
    /\ Cardinality({sq \in PiecesOn(board, "b") : At(board, sq).name = "Queen"}) = 2
    /\ Cardinality({sq \in PiecesOn(board, "b") : At(board, sq).name = "Pawn"}) = 7

-----------------------------------------------------------------------------
(* The direction rules                                                     *)

Sgn(n) == IF n > 0 THEN 1 ELSE IF n < 0 THEN -1 ELSE 0

\* The displacement runs along a rank, a file or a diagonal.
OnLine(dx, dy) == dx = 0 \/ dy = 0 \/ dx = dy \/ dx = -dy

\* C23: is_allowed returns TRUE for a Knight when allow_knight is set; for
\* any other call it returns whether the unit direction (sign dx, sign dy)
\* is in allowed_vectors when the displacement runs along a rank, file or
\* diagonal, and whether (dx, dy) itself is in allowed_vectors when it does
\* not.  With the rules Game.__init__ gives Black, no move of a piece other
\* than a knight with dy > 0 is allowed, and every such move along a file or
\* diagonal with dy < 0 and every move along a rank is allowed.
C23_IsAllowedDecidesByUnitDirection ==
    (program = "DirectionRules" /\ direction_call.step = 1) =>
        LET c == direction_call
            dx == c.to_pos[1] - c.from_pos[1]
            dy == c.to_pos[2] - c.from_pos[2]
        IN /\ (c.rules.allow_knight /\ c.piece_name = "Knight") => c.returned
           /\ ~(c.rules.allow_knight /\ c.piece_name = "Knight") =>
                 IF OnLine(dx, dy)
                 THEN c.returned <=> (<<Sgn(dx), Sgn(dy)>> \in c.rules.allowed_vectors)
                 ELSE c.returned <=> (<<dx, dy>> \in c.rules.allowed_vectors)
           /\ (c.rules = ai_rules_black /\ c.piece_name # "Knight") =>
                 /\ dy > 0 => ~c.returned
                 /\ (dy < 0 /\ OnLine(dx, dy)) => c.returned
                 /\ (dy = 0 /\ dx # 0) => c.returned

\* With Black's rules, the rook's move a8-a4 has been allowed.
C23_Witness ==
    /\ program = "DirectionRules" /\ direction_call.step = 1
    /\ direction_call.rules = ai_rules_black
    /\ direction_call.piece_name = "Rook"
    /\ direction_call.from_pos = <<0, 7>> /\ direction_call.to_pos = <<0, 3>>
    /\ direction_call.returned

-----------------------------------------------------------------------------
(* Progress of automated play                                              *)

\* Automated play is on, the engine object exists, it is Black's turn in a
\* running game and Black has a legal move; the engine's candidates, when
\* there are any, include a move of the games played.
EngineTurn ==
    /\ program = "Game" /\ status = "running"
    /\ ai_enabled /\ ai = "EngineAI" /\ curr_player = "b"
    /\ \E from \in DOMAIN all_poss_moves : all_poss_moves[from] # {}
    /\ \/ no_root_moves(board, curr_player, all_poss_moves, ai_rules_black)
       \/ \E m \in BookNext :
             /\ IsLegal(m)
             /\ is_root_move(board, curr_player, ai_rules_black, m.from, m.to)

\* C24: with automated play on and an engine that answers with one of its
\* candidates, whenever it is Black's turn and Black has a legal move, the
\* turn eventually passes to White (or the game ends, or automated play is
\* switched off).
C24_BlackMoveEventuallyApplied ==
    EngineTurn ~> (curr_player = "w" \/ status # "running" \/ ~ai_enabled)

-----------------------------------------------------------------------------
(* Who moves for Black                                                     *)

\* C25: while automated play is on and the engine object exists, a step that
\* applies a move of Black is a step of the engine's turn (make_ai_move),
\* never one of a mouse click or a typed command.
C25_OnlyEngineMovesBlack ==
    [][(/\ program = "Game" /\ ai_enabled /\ ai = "EngineAI"
        /\ curr_player = "b" /\ board' # board)
          => last'.handler = "ai"]_vars

-----------------------------------------------------------------------------
(* The three ways to apply a move                                          *)

\* The game after the piece on `from` is selected with the mouse (it may be
\* selected already) and `to` is clicked.
ByClicks(g, from, to) ==
    LET selected == IF g.curr_selected_piece # None /\ g.curr_selected_piece.position = from
                    THEN g
                    ELSE get_user_click(g, PixelOf(from)[1], PixelOf(from)[2])
    IN get_user_click(selected, PixelOf(to)[1], PixelOf(to)[2])

\* The game after the command "from, to" is typed.
ByCommand(g, from, to) == get_valid_command(g, from, to)

\* The game after make_ai_move, when choose_move has returned (from, to).
ByEngine(g, from, to) == make_ai_move_select(RefreshMoves(g), Move(from, to))

\* The games a and b agree in what the claim compares: grid, side to move,
\* move history, captured lists, selection and game-over verdict.
SameOutcome(a, b) ==
    /\ a.board = b.board
    /\ a.curr_player = b.curr_player
    /\ a.played_moves = b.played_moves
    /\ a.white_pieces_taken_images = b.white_pieces_taken_images
    /\ a.black_pieces_taken_images = b.black_pieces_taken_images
    /\ a.curr_selected_piece = b.curr_selected_piece
    /\ a.curr_poss_moves = b.curr_poss_moves
    /\ a.status = b.status
    /\ a.winner = b.winner

\* C26: from any state of a running game and for any move (from, to) of the
\* games played that is in the legal-move map, the two clicks, the typed
\* command and the engine's move leave the same grid, side to move, move
\* history, captured lists and game-over verdict, with the selection
\* cleared, the turn passed and one entry more in the history.
C26_ThreePathsAgree ==
    (program = "Game" /\ status = "running") =>
        \A m \in {n \in BookNext : IsLegal(n)} :
            \A c \in {ByCommand(Self, m.from, m.to)} :
               /\ \A k \in {ByClicks(Self, m.from, m.to)} : SameOutcome(k, c)
               /\ \A e \in {ByEngine(Self, m.from, m.to)} : SameOutcome(e, c)
               /\ c.curr_selected_piece = None
               /\ c.curr_player # curr_player
               /\ Len(c.played_moves) = Len(played_moves) + 1

\* Black's pawn on b2 can take the rook on a1: each of the three paths puts a
\* black queen on a1, adds the rook to White's list and gives White the turn.
C26_Witness ==
    /\ program = "Game" /\ status = "running" /\ curr_player = "b"
    /\ InMap(all_poss_moves, <<1, 1>>, <<0, 0>>)
    /\ IsA(At(board, <<1, 1>>), {"Pawn"}, "b")
    /\ \A g \in {ByClicks(Self, <<1, 1>>, <<0, 0>>), ByCommand(Self, <<1, 1>>, <<0, 0>>),
                ByEngine(Self, <<1, 1>>, <<0, 0>>)} :
          /\ IsA(At(g.board, <<0, 0>>), {"Queen"}, "b")
          /\ g.white_pieces_taken_images =
                Append(white_pieces_taken_images, <<"w", "Rook">>)
          /\ g.curr_player = "w"

=============================================================================
